---- MODULE Spec2Model ----
(***************************************************************************)
(* DualLink receiver: DLNK datagram parsing, frame reassembly, the UDP     *)
(* ingress task, the TLS signaling connection handler and the per-display  *)
(* session loop, modelled from the Rust sources.                           *)
(*                                                                         *)
(* Option<T> is a sequence of length <= 1: None = <<>>, Some(x) = <<x>>.   *)
(* Bytes are sequences of 0..255.  Time is counted in whole seconds.       *)
(***************************************************************************)
EXTENDS Integers, Sequences, FiniteSets, TLC

VARIABLES
    mode,        \* which inputs the environment offers in this run (datagrams, client messages)
    \* -- run_udp_receiver and its FrameReassembler
    now,         \* the monotonic clock (Instant::now), in seconds
    frames,      \* FrameReassembler.frames : frame_seq -> PartialFrame
    udpPc,       \* position of run_udp_receiver: "recv" | "sending" | "returned"
    udpPending,  \* the frame run_udp_receiver is awaiting frame_tx.send on
    counter,     \* frames_received (AtomicU64)
    udpLog,      \* history: every packet given to FrameReassembler::push, with its result
    lastDgram,   \* history: the last datagram run_udp_receiver took from the socket
    \* -- the channels of one display
    frameCh,     \* frame_tx -> frame_rx
    eventCh,     \* per display, event_tx -> event_rx
    rxDropped,   \* run_display has returned and dropped frame_rx and event_rx
    \* -- run_signaling_server_shared and handle_signaling_conn
    lsn,         \* per display, the listener: 0 = in listener.accept(), c = in the TLS
                 \* handshake with c
    conn,        \* per connection: pc, the event awaited in event_tx.send, session_active, forwarder
    wire,        \* history: per connection, the messages the server wrote to the client
    evHist,      \* history: every event sent on event_tx, with the connection it came from
    nSig,        \* client messages handled so far that had an effect
    \* -- run_display and its decoder worker
    oPc,             \* position of run_display
    session_count,
    pending_config,
    config,          \* the config of the current iteration of 'reconnect (Option)
    exitReason,      \* session_exit_reason of the last Streaming loop
    inHand,          \* the frame run_display is awaiting decode_tx.send on
    decodeCh,        \* decode_tx -> decode_rx
    decodeTx,        \* "none" | "open" | "dropped"
    worker,          \* the blocking decode task: "none" | "running" | "finished"
    decoderGen,      \* decoders initialised so far
    inputQ,          \* the shared input queue (input_tx -> input_rx)
    pushed,          \* history: frames given to push_frame, with the decoder that got them
    initLog,         \* history: every decoder initialisation attempted
    hot,             \* history: set from a config_updated exit until the next decoder initialisation
    cooldowns,       \* history: 300 ms sleeps started
    eventsTaken,     \* history: events run_display took from event_rx
    \* -- the input path: the forwarder tasks and the mutex around input_rx
    fwd,             \* per connection, the forwarder task: pc and the event it holds
    inputLock,       \* the connection whose forwarder holds the mutex around input_rx, 0 = free
    inputLog,        \* history: every try_send on the input queue, with its outcome
    fwdLog,          \* history: every input_event a forwarder wrote, with the write's outcome
    \* -- the sender: VideoSender and the send_frame calls on its clones
    seqCounter,      \* VideoSender.frame_seq (AtomicU32, shared by the clones)
    sndTask,         \* per clone, the send_frame call it is in (0 = none)
    sndCalls,        \* the send_frame calls so far: arguments, progress, outcome
    sndLast,         \* history: the last datagram a send_frame call gave to the socket
    \* -- pure functions applied to one input
    fnIn,            \* the input (Option), tagged with the function it is for
    fnOut,           \* the result (Option), None until the function was applied
    \* -- the sender's SignalingClient and its recv_loop task
    cliPc,           \* "connected" | "await_ack" | "returned" | "recv" | "recv_send" | "recv_done"
    cliWritten,      \* history: the messages the client wrote to the stream
    helloRead,       \* history: the results of read_msg inside send_hello
    cliResult,       \* what send_hello returned (Option)
    recvRead,        \* history: the results of read_msg inside recv_loop
    cliInputCh,      \* input_tx -> input_rx of start_recv_loop
    cliHeld,         \* the event recv_loop is awaiting input_tx.send on (Option)
    cliRxAlive,      \* the caller still holds input_rx
    cliTaken,        \* history: what the caller got from input_rx.recv()
    \* -- run() with one run_display task per display
    dPc,             \* per display, the position of its run_display task
    dFrameCh,        \* per display, frame_tx -> frame_rx
    dEventCh,        \* per display, event_tx -> event_rx
    dOpen,           \* per display, which of its senders (frame_tx, event_tx) are alive
    dLog,            \* history: per display, what its run_display took from the channels
    runIdx           \* the handle run() is awaiting; display_count once it is past the loop

udpVars == <<now, frames, udpPc, udpPending, counter, udpLog, lastDgram>>
chanVars == <<frameCh, eventCh, rxDropped>>
sigVars == <<lsn, conn, wire, evHist, nSig>>
appVars == <<oPc, session_count, pending_config, config, exitReason, inHand, decodeCh,
             decodeTx, worker, decoderGen, inputQ,
             pushed, initLog, hot, cooldowns, eventsTaken>>

inVars == <<fwd, inputLock, inputLog, fwdLog>>
sndVars == <<seqCounter, sndTask, sndCalls, sndLast>>

fnVars == <<fnIn, fnOut>>
cliVars == <<cliPc, cliWritten, helloRead, cliResult, recvRead, cliInputCh, cliHeld,
             cliRxAlive, cliTaken>>
runVars == <<dPc, dFrameCh, dEventCh, dOpen, dLog, runIdx>>
extVars == <<fnVars, cliVars, runVars>>
vars == <<mode, udpVars, chanVars, sigVars, appVars, inVars, sndVars, extVars>>

---------------------------------------------------------------------------
(* Bounds of the model *)

\* accepted datagrams per run
MaxDatagrams == 3
\* the frame channel has 64 slots (lib.rs:569); the model scales it down
FrameChanCap == 2
\* the event channel has 16 slots (lib.rs:570); the model scales it down
EventChanCap == 1
\* client messages with an effect per run
MaxSigMsgs == 3
\* the decode channel has 64 slots (app.rs:217); the model scales it down
DecodeChanCap == 1
\* the input queue has 256 slots (lib.rs:558); the model scales it down
InputChanCap == 2
\* send_frame calls per run
MaxCalls == 3
\* input events polled by the decode workers per run
MaxInputEvents == 3

---------------------------------------------------------------------------
(* Protocol constants *)

MAGIC == 1145851467
HEADER_SIZE == 20
REASSEMBLY_TIMEOUT == 2

\* The clock of a run stops one second past the reassembly timeout
MaxTime == REASSEMBLY_TIMEOUT + 1

None == <<>>
Some(x) == <<x>>

\* Variant: the value overtakes the ones waiting in the channel
MpscSend_Front(ch, x) == <<x>> \o ch

\* mpsc::Sender::send on a channel with room: the value goes to the back
MpscSend(ch, x) == Append(ch, x)

---------------------------------------------------------------------------
(* Big-endian integers *)

U16BE(x) == <<(x \div 256) % 256, x % 256>>
U32BE(x) == <<(x \div 16777216) % 256, (x \div 65536) % 256, (x \div 256) % 256, x % 256>>

\* u16::from_be_bytes(buf[off..off+2]), off zero-based
FromBE16(buf, off) == buf[off + 1] * 256 + buf[off + 2]
\* u32::from_be_bytes(buf[off..off+4]), off zero-based
FromBE32(buf, off) ==
    buf[off + 1] * 16777216 + buf[off + 2] * 65536 + buf[off + 3] * 256 + buf[off + 4]

---------------------------------------------------------------------------
(* Packet parsing *)

\* Variant: a datagram of exactly HEADER_SIZE bytes is refused
parse_packet_Strict(buf) ==
    IF Len(buf) <= HEADER_SIZE THEN None
    ELSE IF FromBE32(buf, 0) # MAGIC THEN None
    ELSE IF FromBE16(buf, 10) = 0 THEN None
    ELSE Some([frame_seq     |-> FromBE32(buf, 4),
               frag_index    |-> FromBE16(buf, 8),
               frag_count    |-> FromBE16(buf, 10),
               pts_ms        |-> FromBE32(buf, 12),
               is_keyframe   |-> (buf[17] % 2) # 0,
               display_index |-> buf[18],
               payload       |-> SubSeq(buf, HEADER_SIZE + 1, Len(buf))])

parse_packet(buf) ==
    IF Len(buf) < HEADER_SIZE THEN None
    ELSE IF FromBE32(buf, 0) # MAGIC THEN None
    ELSE IF FromBE16(buf, 10) = 0 THEN None
    ELSE Some([frame_seq     |-> FromBE32(buf, 4),
               frag_index    |-> FromBE16(buf, 8),
               frag_count    |-> FromBE16(buf, 10),
               pts_ms        |-> FromBE32(buf, 12),
               is_keyframe   |-> (buf[17] % 2) # 0,
               display_index |-> buf[18],
               payload       |-> SubSeq(buf, HEADER_SIZE + 1, Len(buf))])

---------------------------------------------------------------------------
(* Frame reassembler *)

PartialFrame_new(frag_count, pts_ms, is_keyframe, t) ==
    [fragments      |-> [i \in 1..frag_count |-> None],
     received_count |-> 0,
     total_count    |-> frag_count,
     pts_ms         |-> pts_ms,
     is_keyframe    |-> is_keyframe,
     first_seen     |-> t]

\* Variant: a fragment that is already stored is counted again
PartialFrame_push_CountsDuplicates(pf, index, payload) ==
    IF index >= Len(pf.fragments)
    THEN [pf |-> pf, done |-> FALSE]
    ELSE LET stored == [pf EXCEPT !.fragments[index + 1] =
                                      IF @ = None THEN Some(payload) ELSE @,
                                  !.received_count = @ + 1]
         IN  [pf |-> stored, done |-> stored.received_count = stored.total_count]

\* PartialFrame::push: the slot afterwards and the returned bool
PartialFrame_push(pf, index, payload) ==
    IF index >= Len(pf.fragments)
    THEN [pf |-> pf, done |-> FALSE]
    ELSE LET stored == IF pf.fragments[index + 1] = None
                       THEN [pf EXCEPT !.fragments[index + 1] = Some(payload),
                                       !.received_count = @ + 1]
                       ELSE pf
         IN  [pf |-> stored, done |-> stored.received_count = stored.total_count]

RECURSIVE ConcatFrom(_, _)
ConcatFrom(fragments, i) ==
    IF i > Len(fragments) THEN <<>>
    ELSE (IF fragments[i] = None THEN <<>> ELSE fragments[i][1])
         \o ConcatFrom(fragments, i + 1)

RECURSIVE ConcatDownFrom(_, _)
ConcatDownFrom(fragments, i) ==
    IF i < 1 THEN <<>>
    ELSE (IF fragments[i] = None THEN <<>> ELSE fragments[i][1])
         \o ConcatDownFrom(fragments, i - 1)

\* Variant: the fragments are concatenated from the last to the first
PartialFrame_assemble_Reversed(pf) == ConcatDownFrom(pf.fragments, Len(pf.fragments))

PartialFrame_assemble(pf) == ConcatFrom(pf.fragments, 1)

\* Variant: no slot is ever dropped
Retained_KeepsAll(fs, t) == DOMAIN fs

\* Variant: a slot aged exactly REASSEMBLY_TIMEOUT is dropped too
Retained_Strict(fs, t) ==
    {s \in DOMAIN fs : t - fs[s].first_seen < REASSEMBLY_TIMEOUT}

\* The slots retain() keeps at time t
Retained(fs, t) ==
    {s \in DOMAIN fs : t - fs[s].first_seen <= REASSEMBLY_TIMEOUT}

\* FrameReassembler::push: the map afterwards, the returned Option<EncodedFrame>,
\* and the frame_seqs whose slots the retain() dropped
FrameReassembler_push(fs, t, packet) ==
    LET keep  == Retained(fs, t)
        seq   == packet.frame_seq
        entry == IF seq \in keep THEN fs[seq]
                 ELSE PartialFrame_new(packet.frag_count, packet.pts_ms,
                                       packet.is_keyframe, t)
        r     == PartialFrame_push(entry, packet.frag_index, packet.payload)
    IN  IF ~r.done
        THEN [frames  |-> [s \in keep \cup {seq} |-> IF s = seq THEN r.pf ELSE fs[s]],
              out     |-> None,
              evicted |-> DOMAIN fs \ keep]
        ELSE [frames  |-> [s \in keep \ {seq} |-> fs[s]],
              out     |-> Some([data         |-> PartialFrame_assemble(r.pf),
                                timestamp_us |-> r.pf.pts_ms * 1000,
                                is_keyframe  |-> r.pf.is_keyframe,
                                codec        |-> "h264"]),
              evicted |-> DOMAIN fs \ keep]

---------------------------------------------------------------------------
(* The sender's datagram layout and the datagrams the network may deliver *)

\* send_frame's datagram for fragment i of a frame
BuildDatagram(frame_seq, i, frag_count, pts_ms, flags, display_index, payload) ==
    U32BE(MAGIC) \o U32BE(frame_seq) \o U16BE(i) \o U16BE(frag_count)
    \o U32BE(pts_ms) \o <<flags>> \o <<display_index>> \o <<0, 0>> \o payload

\* Access units a sender may have packetised: frame_seq 0 as two or as three
\* fragments (with different pts_ms and keyframe flags, one payload empty), and
\* frame_seq 1 as a single fragment.
SampleFrames ==
    { [frame_seq |-> 0, pts_ms |-> 2000, is_keyframe |-> FALSE,
       payloads  |-> << <<1, 2>>, <<3>> >>],
      [frame_seq |-> 0, pts_ms |-> 3000, is_keyframe |-> TRUE,
       payloads  |-> << <<10>>, <<>>, <<12, 13>> >>],
      [frame_seq |-> 1, pts_ms |-> 1000, is_keyframe |-> TRUE,
       payloads  |-> << <<0, 0, 0, 1, 101, 136>> >>] }

FragmentOf(f, i) ==
    BuildDatagram(f.frame_seq, i, Len(f.payloads), f.pts_ms,
                  IF f.is_keyframe THEN 1 ELSE 0, 0, f.payloads[i + 1])

FragDatagrams ==
    {FragmentOf(f, i) : <<f, i>> \in {<<g, j>> \in SampleFrames \X (0..2) : j < Len(g.payloads)}}

\* A header-only datagram, its truncations, damaged magics, frag_count = 0,
\* a well-formed one-fragment datagram and the first half of a two-fragment frame
HeaderOnly == BuildDatagram(0, 0, 1, 5, 1, 0, <<>>)
RawDatagrams ==
    {SubSeq(HeaderOnly \o <<9>>, 1, n) : n \in {0, 3, 4, 12, 19, 20, 21}}
    \cup {[HeaderOnly EXCEPT ![k] = @ + 1] : k \in 1..4}
    \cup {BuildDatagram(1, 0, 0, 5, 0, 0, <<9>>), BuildDatagram(1, 0, 1, 6, 3, 1, <<8>>),
          BuildDatagram(2, 0, 2, 7, 0, 0, <<6>>)}

\* In the pipeline runs: frame_seq 0 in two fragments and frame_seq 1 in one
PipeFrames ==
    { [frame_seq |-> 0, pts_ms |-> 2000, is_keyframe |-> FALSE,
       payloads  |-> << <<1, 2>>, <<3>> >>],
      [frame_seq |-> 1, pts_ms |-> 1000, is_keyframe |-> TRUE,
       payloads  |-> << <<0, 0, 0, 1, 101, 136>> >>] }

PipeDatagrams ==
    {FragmentOf(f, i) : <<f, i>> \in {<<g, j>> \in PipeFrames \X (0..1) : j < Len(g.payloads)}}

\* In the session runs: one single-fragment frame, sent again and again
AppDatagrams == {BuildDatagram(1, 0, 1, 1000, 1, 0, <<0, 0, 0, 1, 101, 136>>)}

Datagrams(m) ==
    IF m = "raw" THEN RawDatagrams
    ELSE IF m \in {"app", "exit", "drop"} THEN AppDatagrams
    ELSE IF m = "pipe" THEN PipeDatagrams
    ELSE FragDatagrams

\* Accepted datagrams per run: the session runs take just enough to fill the
\* frame channel, the pipeline runs enough to fill it after a frame went through
DatagramBudget(m) ==
    IF m \in {"app", "exit", "drop"} THEN FrameChanCap + 1
    ELSE IF m = "pipe" THEN FrameChanCap + 2
    ELSE MaxDatagrams

---------------------------------------------------------------------------
(* VideoSender::send_frame *)

MAX_PAYLOAD_BYTES == 1384

\* `x as u16`
AsU16(x) == x % 65536

\* Variant: the counter is read, not advanced
FetchAdd_Stale(v) == v

\* AtomicU32::fetch_add(1): the value stored (the value returned is the old
\* one); the runs stay far below the wrap at 2^32
FetchAdd(v) == v + 1

\* Line 109: the length of the slice that starts at offset
FragmentLength(total_bytes, offset) ==
    IF total_bytes - offset < MAX_PAYLOAD_BYTES THEN total_bytes - offset
    ELSE MAX_PAYLOAD_BYTES

\* Line 104
NumFragments(total_bytes) ==
    LET n == (total_bytes + MAX_PAYLOAD_BYTES - 1) \div MAX_PAYLOAD_BYTES
    IN  IF n < 1 THEN 1 ELSE n

\* The clones of the VideoSender that call send_frame, and the access units
\* they are given: sizes around the fragment boundaries on two clones, or one
\* access unit of 65536 fragments on one
Senders(m) == IF m = "send" THEN {1, 2} ELSE {1}

SendFrames(m) ==
    IF m = "send"
    THEN { [len |-> 0,    timestamp_us |-> 1000, is_keyframe |-> FALSE],
           [len |-> 1,    timestamp_us |-> 2999, is_keyframe |-> TRUE],
           [len |-> 1384, timestamp_us |-> 3000, is_keyframe |-> FALSE],
           [len |-> 1385, timestamp_us |-> 4000, is_keyframe |-> TRUE],
           [len |-> 2769, timestamp_us |-> 5000, is_keyframe |-> FALSE] }
    ELSE { [len |-> 65536 * MAX_PAYLOAD_BYTES, timestamp_us |-> 1000, is_keyframe |-> TRUE] }

\* send_frame calls per run
CallBudget(m) == IF m = "send" THEN MaxCalls ELSE 1

\* send_frame up to its first await: an empty access unit returns Ok(0);
\* otherwise the call takes its frame_seq and computes the header fields
SendFrameBegin(t, f) ==
    /\ sndTask[t] = 0
    /\ Len(sndCalls) < CallBudget(mode)
    /\ IF f.len = 0
       THEN /\ sndCalls' = Append(sndCalls,
                   [task |-> t, len |-> 0, frame_seq |-> None, pts_ms |-> 0, flags |-> 0,
                    num_fragments |-> 0, frag_count |-> 0, i |-> 0, covered |-> 0,
                    status |-> "returned", result |-> Some(0)])
            /\ UNCHANGED <<seqCounter, sndTask>>
       ELSE /\ seqCounter' = FetchAdd(seqCounter)
            /\ sndCalls' = Append(sndCalls,
                   [task |-> t, len |-> f.len, frame_seq |-> Some(seqCounter),
                    pts_ms |-> f.timestamp_us \div 1000,
                    flags |-> IF f.is_keyframe THEN 1 ELSE 0,
                    num_fragments |-> NumFragments(f.len),
                    frag_count |-> AsU16(NumFragments(f.len)),
                    i |-> 0, covered |-> 0, status |-> "sending", result |-> None])
            /\ sndTask' = [sndTask EXCEPT ![t] = Len(sndCalls) + 1]
    /\ sndLast' = sndLast
    /\ UNCHANGED <<mode, extVars, udpVars, chanVars, sigVars, appVars, inVars>>

\* One iteration of the loop: datagram i is built and given to the socket; a
\* send error ends the call; after the last datagram the call returns the
\* number of fragments.  The payload is the slice data[offset..offset+length],
\* kept as its bounds; `covered` counts the bytes sent as long as the slices
\* follow one another.
SendFragment(t, ok) ==
    /\ sndTask[t] # 0
    /\ LET id     == sndTask[t]
           call   == sndCalls[id]
           offset == call.i * MAX_PAYLOAD_BYTES
           length == FragmentLength(call.len, offset)
           last   == call.i + 1 = call.num_fragments
       IN
       /\ sndLast' = Some([call   |-> id,
                           k      |-> call.i + 1,
                           header |-> BuildDatagram(call.frame_seq[1], AsU16(call.i),
                                                    call.frag_count, call.pts_ms,
                                                    call.flags, 0, <<>>),
                           offset |-> offset,
                           length |-> length,
                           ok     |-> ok])
       /\ sndCalls' = [sndCalls EXCEPT ![id] =
              IF ~ok THEN [@ EXCEPT !.status = "failed"]
              ELSE [@ EXCEPT !.i = call.i + 1,
                             !.covered = IF offset = call.covered THEN offset + length
                                         ELSE call.covered,
                             !.status = IF last THEN "returned" ELSE "sending",
                             !.result = IF last THEN Some(call.num_fragments) ELSE None]]
       /\ sndTask' = [sndTask EXCEPT ![t] = IF ok /\ ~last THEN id ELSE 0]
    /\ seqCounter' = seqCounter
    /\ UNCHANGED <<mode, extVars, udpVars, chanVars, sigVars, appVars, inVars>>

\* VideoSender::connect_with_port
SendInit ==
    /\ seqCounter = 0
    /\ sndTask = [t \in Senders(mode) |-> 0]
    /\ sndCalls = <<>>
    /\ sndLast = None

---------------------------------------------------------------------------
(* run_udp_receiver *)

\* Variant: a frame that finds the channel full is dropped (try_send)
FrameTxSend_TrySend(frame) ==
    IF rxDropped
    THEN /\ udpPc' = "returned"
         /\ udpPending' = None
         /\ frameCh' = frameCh
    ELSE /\ udpPc' = "recv"
         /\ udpPending' = None
         /\ frameCh' = IF Len(frameCh) < FrameChanCap THEN MpscSend(frameCh, frame)
                       ELSE frameCh

\* frame_tx.send(frame).await once it can proceed: the channel has room, or the
\* receiver is gone and the task returns
FrameTxSend(frame) ==
    IF rxDropped
    THEN /\ udpPc' = "returned"
         /\ udpPending' = None
         /\ frameCh' = frameCh
    ELSE IF Len(frameCh) < FrameChanCap
    THEN /\ udpPc' = "recv"
         /\ udpPending' = None
         /\ frameCh' = MpscSend(frameCh, frame)
    ELSE /\ udpPc' = "sending"
         /\ udpPending' = Some(frame)
         /\ frameCh' = frameCh

\* One iteration of the loop on datagram d: parse, push, count, publish.
\* A published frame carries, as history tags, its frame_seq and the number of
\* the push that completed it.
UdpRecv(d) ==
    /\ udpPc = "recv"
    /\ lastDgram' = d
    /\ LET parsed == parse_packet(d) IN
       IF parsed = None
       THEN UNCHANGED <<frames, udpLog, counter, udpPc, udpPending, frameCh>>
       ELSE LET packet == parsed[1]
                r      == FrameReassembler_push(frames, now, packet)
            IN  /\ Len(udpLog) < DatagramBudget(mode)
                /\ frames' = r.frames
                /\ udpLog' = Append(udpLog, [packet |-> packet, at |-> now,
                                             out |-> r.out, evicted |-> r.evicted])
                /\ IF r.out = None
                   THEN UNCHANGED <<counter, udpPc, udpPending, frameCh>>
                   ELSE /\ counter' = counter + 1
                        /\ FrameTxSend([id |-> Len(udpLog) + 1, seq |-> packet.frame_seq,
                                     frame |-> r.out[1]])
    /\ UNCHANGED <<mode, extVars, inVars, sndVars, now, rxDropped, eventCh, sigVars, appVars>>

UdpRecvAny == \E d \in Datagrams(mode) : UdpRecv(d)

\* frame_tx.send(frame).await resumes
UdpSendResume ==
    /\ udpPc = "sending"
    /\ rxDropped \/ Len(frameCh) < FrameChanCap
    /\ FrameTxSend(udpPending[1])
    /\ UNCHANGED <<mode, extVars, inVars, sndVars, now, frames, counter, rxDropped, udpLog, lastDgram>>
    /\ UNCHANGED <<eventCh, sigVars, appVars>>

\* Time passes
Tick ==
    /\ now < MaxTime
    /\ now' = now + 1
    /\ UNCHANGED <<mode, extVars, inVars, sndVars, frames, udpPc, udpPending, frameCh, counter, rxDropped,
                   udpLog, lastDgram>>
    /\ UNCHANGED <<eventCh, sigVars, appVars>>

\* The holder of frame_rx takes the oldest frame (frame_rx.recv())
FrameRxTake ==
    /\ ~rxDropped
    /\ frameCh # <<>>
    /\ frameCh' = Tail(frameCh)
    /\ UNCHANGED <<mode, extVars, inVars, sndVars, udpVars, rxDropped, eventCh, sigVars, appVars>>

---------------------------------------------------------------------------
(* Signaling: configurations, client messages, events *)

Resolution_FHD == [width |-> 1920, height |-> 1080]
Resolution_QHD == [width |-> 2560, height |-> 1440]

StreamConfig_default == [resolution |-> Resolution_FHD, target_fps |-> 30]
StreamConfig_high_performance == [resolution |-> Resolution_QHD, target_fps |-> 60]
\* the default resolution at another frame rate
StreamConfig_FHD60 == [resolution |-> Resolution_FHD, target_fps |-> 60]

\* the PIN of this run (generate_pairing_pin), and one that is not
expected_pin == "123456"
wrong_pin == "000000"

\* A SignalingMessage as the handler reads it: msg_type and the Option fields
\* the handler looks at
Msg(type, session_id, device_name, cfg, pairing_pin) ==
    [type |-> type, session_id |-> session_id, device_name |-> device_name,
     config |-> cfg, pairing_pin |-> pairing_pin]

\* SignalingMessage::hello_ack
hello_ack(session_id, accepted, reason) ==
    [type |-> "hello_ack", session_id |-> Some(session_id),
     accepted |-> Some(accepted), reason |-> reason]

\* Option<String>::unwrap_or_default
unwrap_or_default(o) == IF o = None THEN "" ELSE o[1]

\* SignalingEvent
SessionStarted(session_id, device_name, cfg, client_addr) ==
    [type |-> "SessionStarted", session_id |-> session_id, device_name |-> device_name,
     config |-> Some(cfg), client_addr |-> client_addr]
ConfigUpdated(cfg) ==
    [type |-> "ConfigUpdated", session_id |-> "", device_name |-> "",
     config |-> Some(cfg), client_addr |-> 0]
SessionStopped(session_id) ==
    [type |-> "SessionStopped", session_id |-> session_id, device_name |-> "",
     config |-> None, client_addr |-> 0]
ClientDisconnected ==
    [type |-> "ClientDisconnected", session_id |-> "", device_name |-> "",
     config |-> None, client_addr |-> 0]

\* What clients send on the signaling port.  In the signaling runs: hellos with
\* the right PIN, a wrong PIN and no PIN, stops with and without a session id,
\* config updates with and without a config, and the three message types the
\* handler skips.  In the session runs: one hello, two config updates (same
\* and different resolution) and a stop.  In the pipeline and input runs: a
\* hello and a stop, and so in the shutdown runs.
SigMsgs ==
    { Msg("hello", Some("a"), Some("mac"), None, Some(expected_pin)),
      Msg("hello", Some("b"), None, Some(StreamConfig_high_performance), Some(expected_pin)),
      Msg("hello", Some("a"), Some("mac"), None, Some(wrong_pin)),
      Msg("hello", None, None, None, None),
      Msg("stop", Some("a"), None, None, None),
      Msg("stop", None, None, None, None),
      Msg("config_update", None, None, Some(StreamConfig_high_performance), None),
      Msg("config_update", None, None, None, None),
      Msg("keepalive", None, None, None, None),
      Msg("hello_ack", Some("a"), None, None, None),
      Msg("input_event", None, None, None, None) }

AppMsgs ==
    { Msg("hello", Some("a"), Some("mac"), None, Some(expected_pin)),
      Msg("config_update", None, None, Some(StreamConfig_high_performance), None),
      Msg("config_update", None, None, Some(StreamConfig_FHD60), None),
      Msg("stop", Some("a"), None, None, None) }

PipeMsgs ==
    { Msg("hello", Some("a"), Some("mac"), None, Some(expected_pin)),
      Msg("stop", Some("a"), None, None, None) }

\* the messages of the one-client runs and a hello that asks for 2560x1440
TwoMsgs ==
    AppMsgs \cup
    { Msg("hello", Some("b"), Some("mac"), Some(StreamConfig_high_performance),
          Some(expected_pin)) }

ClientMsgs(m) ==
    IF m = "sig" THEN SigMsgs
    ELSE IF m = "two" THEN TwoMsgs
    ELSE IF m \in {"pipe", "input", "exit", "drop"} THEN PipeMsgs
    ELSE AppMsgs

\* Client messages with an effect per run: the pipeline runs take just enough
\* to fill the event channel
SigBudget(m) == IF m = "pipe" THEN EventChanCap + 1 ELSE MaxSigMsgs

\* The clients that may connect to the signaling ports, and the display whose
\* port each connects to: two clients of display 0 in the signaling runs, one
\* client of display 0 and one of display 1 in the input runs, two clients of
\* display 0 with its run_display in the two-client runs, one client of
\* display 0 otherwise
Conns(m) == IF m \in {"sig", "input", "two"} THEN {1, 2} ELSE {1}

DisplayOf(m, c) == IF m = "input" /\ c = 2 THEN 1 ELSE 0

Displays(m) == {DisplayOf(m, c) : c \in Conns(m)}

\* Only the run_display of display 0 is modelled: the other displays' receivers
\* stay with their holder
RxDropped(d) == d = 0 /\ rxDropped

---------------------------------------------------------------------------
(* run_signaling_server_shared: the accept loop *)

\* A client opens a TCP connection to the signaling port
TcpConnect(c) ==
    /\ conn[c].pc = "absent"
    /\ conn' = [conn EXCEPT ![c].pc = "queued"]
    /\ UNCHANGED <<mode, extVars, inVars, sndVars, udpVars, chanVars, lsn, wire, evHist, nSig, appVars>>

\* listener.accept() returns a connection; the loop goes on to the TLS handshake
ListenerAccept(c) ==
    /\ lsn[DisplayOf(mode, c)] = 0
    /\ conn[c].pc = "queued"
    /\ lsn' = [lsn EXCEPT ![DisplayOf(mode, c)] = c]
    /\ conn' = [conn EXCEPT ![c].pc = "handshake"]
    /\ UNCHANGED <<mode, extVars, inVars, sndVars, udpVars, chanVars, wire, evHist, nSig, appVars>>

\* acc.accept(stream) succeeds: the handler is spawned, the loop accepts again
HandshakeOk(c) ==
    /\ lsn[DisplayOf(mode, c)] = c
    /\ lsn' = [lsn EXCEPT ![DisplayOf(mode, c)] = 0]
    /\ conn' = [conn EXCEPT ![c].pc = "reading"]
    /\ UNCHANGED <<mode, extVars, inVars, sndVars, udpVars, chanVars, wire, evHist, nSig, appVars>>

\* acc.accept(stream) fails: the connection is dropped, the loop accepts again
HandshakeFail(c) ==
    /\ lsn[DisplayOf(mode, c)] = c
    /\ lsn' = [lsn EXCEPT ![DisplayOf(mode, c)] = 0]
    /\ conn' = [conn EXCEPT ![c].pc = "failed"]
    /\ UNCHANGED <<mode, extVars, inVars, sndVars, udpVars, chanVars, wire, evHist, nSig, appVars>>

---------------------------------------------------------------------------
(* handle_signaling_conn *)

\* Variant: every accepted hello spawns a forwarder
ShouldSpawn_Always(session_active) == TRUE

\* Line 740: `if !session_active`
ShouldSpawn(session_active) == ~session_active

\* Variant: the handler reads on after a `break`
ConnAfter_NoBreak(k, after) ==
    IF after = "spawn" /\ ShouldSpawn(k.session_active)
    THEN [k EXCEPT !.pc = "reading", !.pending = None, !.after = "",
                   !.session_active = TRUE, !.forwarder = "spawned",
                   !.forwarders = @ + 1]
    ELSE [k EXCEPT !.pc = "reading", !.pending = None, !.after = ""]

\* The handler of c after a step: "loop" reads on, "break" returns, "spawn" is
\* the rest of the hello arm (the input forwarder is spawned once per connection)
ConnAfter(k, after) ==
    IF after = "break"
    THEN [k EXCEPT !.pc = "closed", !.pending = None, !.after = ""]
    ELSE IF after = "spawn" /\ ShouldSpawn(k.session_active)
    THEN [k EXCEPT !.pc = "reading", !.pending = None, !.after = "",
                   !.session_active = TRUE, !.forwarder = "spawned",
                   !.forwarders = @ + 1]
    ELSE [k EXCEPT !.pc = "reading", !.pending = None, !.after = ""]

\* event_tx.send(ev).await by the handler of c, `k` being the handler's state
\* up to the send: the event is queued if the channel has room, dropped if the
\* receiver is gone, and otherwise the handler waits
EventTxSend(c, k, ev, after) ==
    IF RxDropped(DisplayOf(mode, c))
    THEN /\ conn' = [conn EXCEPT ![c] = ConnAfter(k, after)]
         /\ UNCHANGED <<eventCh, evHist>>
    ELSE IF Len(eventCh[DisplayOf(mode, c)]) < EventChanCap
    THEN /\ conn' = [conn EXCEPT ![c] = ConnAfter(k, after)]
         /\ eventCh' = [eventCh EXCEPT ![DisplayOf(mode, c)] = MpscSend(@, ev)]
         /\ evHist' = Append(evHist, [conn |-> c, ev |-> ev])
    ELSE /\ conn' = [conn EXCEPT ![c] = [k EXCEPT !.pc = "sending", !.pending = Some(ev),
                                                  !.after = after]]
         /\ UNCHANGED <<eventCh, evHist>>

\* Variant: the PIN of a hello is not looked at
PinMatches_Lenient(client_pin) == TRUE

\* How many skipped frames the history of a connection counts (the handler
\* itself keeps nothing of them)
SkipBudget(m) == IF m = "sig" THEN 1 ELSE 0

\* Variant: a frame the handler has no use for ends the connection like a
\* read error
SkipFrame_Disconnects(c) ==
    /\ EventTxSend(c, conn[c], ClientDisconnected, "break")
    /\ UNCHANGED <<wire, nSig>>

\* Lines 698-701 (`continue` on a body that does not parse) and 765-775 (the
\* Keepalive arm and `HelloAck | InputEvent => {}`): the loop reads the next
\* frame; `skipped` is history only
SkipFrame(c) ==
    /\ conn' = [conn EXCEPT ![c].skipped = IF @ < SkipBudget(mode) THEN @ + 1 ELSE @]
    /\ UNCHANGED <<wire, eventCh, evHist, nSig>>

PinMatches(client_pin) == client_pin = expected_pin

\* The handler of c reads message m and runs the match on msg_type;
\* `ok` is whether the write of the hello_ack succeeds
ConnRecv(c, m, ok) ==
    /\ conn[c].pc = "reading"
    /\ IF m.type = "hello"
       THEN LET session_id  == unwrap_or_default(m.session_id)
                device_name == IF m.device_name = None THEN "addr" ELSE m.device_name[1]
                cfg         == IF m.config = None THEN StreamConfig_default ELSE m.config[1]
                client_pin  == unwrap_or_default(m.pairing_pin)
            IN  /\ nSig < SigBudget(mode)
                /\ nSig' = nSig + 1
                /\ IF ~PinMatches(client_pin)
                   THEN /\ wire' = [wire EXCEPT ![c] = Append(@,
                                       [msg |-> hello_ack(session_id, FALSE,
                                                          Some("Invalid pairing PIN")),
                                        ok  |-> ok])]
                        /\ conn' = [conn EXCEPT ![c] = ConnAfter(@, "break")]
                        /\ UNCHANGED <<eventCh, evHist>>
                   ELSE /\ wire' = [wire EXCEPT ![c] = Append(@,
                                       [msg |-> hello_ack(session_id, TRUE, None),
                                        ok  |-> ok])]
                        /\ IF ~ok
                           THEN /\ conn' = [conn EXCEPT ![c] = ConnAfter(@, "break")]
                                /\ UNCHANGED <<eventCh, evHist>>
                           ELSE EventTxSend(c, conn[c],
                                            SessionStarted(session_id, device_name, cfg, c),
                                            "spawn")
       ELSE IF m.type = "config_update" /\ m.config # None
       THEN /\ ok
            /\ nSig < SigBudget(mode)
            /\ nSig' = nSig + 1
            /\ EventTxSend(c, conn[c], ConfigUpdated(m.config[1]), "loop")
            /\ wire' = wire
       ELSE IF m.type = "stop"
       THEN /\ ok
            /\ nSig < SigBudget(mode)
            /\ nSig' = nSig + 1
            /\ EventTxSend(c, conn[c],
                           SessionStopped(unwrap_or_default(m.session_id)), "break")
            /\ wire' = wire
       ELSE \* config_update without a config, keepalive, hello_ack, input_event
            /\ ok
            /\ SkipFrame(c)
    /\ UNCHANGED <<mode, extVars, inVars, sndVars, udpVars, frameCh, rxDropped, lsn, appVars>>

ConnRecvAny(c) == \E m \in ClientMsgs(mode), ok \in BOOLEAN : ConnRecv(c, m, ok)

\* read_exact fails (the client closed or reset the connection)
ConnReadErr(c) ==
    /\ conn[c].pc = "reading"
    /\ nSig < SigBudget(mode)
    /\ nSig' = nSig + 1
    /\ EventTxSend(c, conn[c], ClientDisconnected, "break")
    /\ UNCHANGED <<mode, extVars, inVars, sndVars, udpVars, frameCh, rxDropped, lsn, wire, appVars>>

\* The body is not a SignalingMessage: the handler reads the next one
ConnBadJson(c) ==
    /\ conn[c].pc = "reading"
    /\ SkipFrame(c)
    /\ UNCHANGED <<mode, extVars, inVars, sndVars, udpVars, frameCh, rxDropped, lsn, appVars>>

\* event_tx.send(ev).await resumes
ConnSendResume(c) ==
    /\ conn[c].pc = "sending"
    /\ RxDropped(DisplayOf(mode, c)) \/ Len(eventCh[DisplayOf(mode, c)]) < EventChanCap
    /\ EventTxSend(c, conn[c], conn[c].pending[1], conn[c].after)
    /\ UNCHANGED <<mode, extVars, inVars, sndVars, udpVars, frameCh, rxDropped, lsn, wire, nSig, appVars>>

\* The holder of event_rx takes the oldest event (event_rx.recv())
EventRxTake(d) ==
    /\ ~RxDropped(d)
    /\ eventCh[d] # <<>>
    /\ eventCh' = [eventCh EXCEPT ![d] = Tail(@)]
    /\ UNCHANGED <<mode, extVars, inVars, sndVars, udpVars, frameCh, rxDropped, sigVars, appVars>>

\* The task that owns the DisplayChannels of display 0 ends while the transport
\* tasks run (it panics or is aborted): frame_rx and event_rx are dropped with
\* what they hold
ReceiversDrop ==
    /\ mode = "drop"
    /\ ~rxDropped
    /\ rxDropped' = TRUE
    /\ frameCh' = <<>>
    /\ eventCh' = [eventCh EXCEPT ![0] = <<>>]
    /\ UNCHANGED <<mode, extVars, inVars, sndVars, udpVars, sigVars, appVars>>

SigInit ==
    /\ eventCh = [d \in Displays(mode) |-> <<>>]
    /\ lsn = [d \in Displays(mode) |-> 0]
    /\ conn = [c \in Conns(mode) |->
                 [pc |-> "absent", pending |-> None, after |-> "",
                  session_active |-> FALSE, forwarder |-> "none", forwarders |-> 0,
                  skipped |-> 0]]
    /\ wire = [c \in Conns(mode) |-> <<>>]
    /\ evHist = <<>>
    /\ nSig = 0

---------------------------------------------------------------------------
(* The ingress channels of a display as run_display sees them *)

\* frame_rx.recv() returns None on an empty channel: the ingress task, the
\* only holder of frame_tx, is gone
FrameClosed == udpPc \in {"aborted", "returned"}

\* event_rx.recv() returns None on an empty channel: the accept loop of the
\* display and every handler it spawned, the holders of event_tx, are gone
EventClosed(d) ==
    /\ lsn[d] < 0
    /\ \A c \in Conns(mode) :
           DisplayOf(mode, c) = d => conn[c].pc \notin {"reading", "sending"}

\* The ingress task is cancelled (the runtime shuts down): frame_tx is dropped,
\* with the frame the task was waiting to send
IngressAbort ==
    /\ udpPc \in {"recv", "sending"}
    /\ udpPc' = "aborted"
    /\ udpPending' = None
    /\ UNCHANGED <<mode, extVars, inVars, sndVars, now, frames, counter, udpLog, lastDgram,
                   chanVars, sigVars, appVars>>

\* The accept loop of display d is cancelled: its event_tx is dropped; the
\* handlers already spawned keep their clones until they return
ServerAbort(d) ==
    /\ lsn[d] >= 0
    /\ lsn' = [lsn EXCEPT ![d] = -1]
    /\ UNCHANGED <<mode, extVars, inVars, sndVars, udpVars, chanVars, conn, wire, evHist, nSig,
                   appVars>>

---------------------------------------------------------------------------
(* run_display: the 'reconnect loop of one display *)

\* Variant: the pending config is read and left in place
ObtainConfig_Peek ==
    IF pending_config # None
    THEN /\ config' = pending_config
         /\ pending_config' = pending_config
         /\ oPc' = "decoder_init"
    ELSE /\ oPc' = "wait_hello"
         /\ UNCHANGED <<config, pending_config>>

\* Lines 138-184 up to the first await: the pending config is taken, or the
\* loop goes to wait for a hello
ObtainConfig ==
    IF pending_config # None
    THEN /\ config' = pending_config
         /\ pending_config' = None
         /\ oPc' = "decoder_init"
    ELSE /\ oPc' = "wait_hello"
         /\ UNCHANGED <<config, pending_config>>

\* Variant: every iteration after the first session sleeps
NeedsCooldown_Always(count, pending) == count # 0

\* Lines 117-135: the branch that sleeps 300 ms
NeedsCooldown(count, pending) == count # 0 /\ pending = None

\* The top of an iteration of 'reconnect
OrchLoopTop ==
    /\ oPc = "top"
    /\ IF NeedsCooldown(session_count, pending_config)
       THEN /\ oPc' = "cooldown"
            /\ cooldowns' = cooldowns + 1
            /\ UNCHANGED <<config, pending_config>>
       ELSE /\ ObtainConfig
            /\ cooldowns' = cooldowns
    /\ UNCHANGED <<mode, extVars, inVars, sndVars, udpVars, chanVars, sigVars, session_count, exitReason, inHand,
                   decodeCh, decodeTx, worker, decoderGen, inputQ,
                   pushed, initLog, hot, eventsTaken>>

\* The 300 ms sleep is over
OrchCooldownDone ==
    /\ oPc = "cooldown"
    /\ ObtainConfig
    /\ UNCHANGED <<mode, extVars, inVars, sndVars, udpVars, chanVars, sigVars, session_count, exitReason, inHand,
                   decodeCh, decodeTx, worker, decoderGen, inputQ,
                   pushed, initLog, hot, cooldowns, eventsTaken>>

\* event_rx.recv() in the wait for a hello (lines 148-182)
OrchWaitHello ==
    /\ oPc = "wait_hello"
    /\ eventCh[0] # <<>>
    /\ LET ev == Head(eventCh[0]) IN
       /\ eventCh' = [eventCh EXCEPT ![0] = Tail(@)]
       /\ eventsTaken' = Append(eventsTaken, ev)
       /\ IF ev.type = "SessionStarted"
          THEN /\ session_count' = session_count + 1
               /\ config' = ev.config
               /\ oPc' = "decoder_init"
          ELSE UNCHANGED <<session_count, config, oPc>>
    /\ UNCHANGED <<mode, extVars, inVars, sndVars, udpVars, frameCh, rxDropped, sigVars, pending_config, exitReason,
                   inHand, decodeCh, decodeTx, worker, decoderGen, inputQ,
                   pushed, initLog, hot, cooldowns>>

\* event_rx.recv() returns None in the wait for a hello (lines 174-181):
\* break 'reconnect, run_display returns and drops its receivers
OrchWaitHelloClosed ==
    /\ oPc = "wait_hello"
    /\ eventCh[0] = <<>>
    /\ EventClosed(0)
    /\ oPc' = "exited"
    /\ rxDropped' = TRUE
    /\ UNCHANGED <<mode, extVars, inVars, sndVars, udpVars, frameCh, eventCh, sigVars, session_count,
                   pending_config, config, exitReason, inHand, decodeCh, decodeTx, worker,
                   decoderGen, inputQ, pushed, initLog, hot, cooldowns, eventsTaken>>

\* DecoderFactory::best_available_with_display returns (lines 187-253): on
\* success the decode channel and the worker are created and the Streaming
\* loop starts; on failure the iteration is abandoned
OrchDecoderInit(ok) ==
    /\ oPc = "decoder_init"
    /\ initLog' = Append(initLog, [config |-> config[1], ok |-> ok, hot |-> hot.active,
                                   taken |-> Len(eventsTaken), cooldowns |-> cooldowns,
                                   worker |-> worker])
    /\ hot' = [active |-> FALSE, config |-> None, taken |-> 0, cooldowns |-> 0]
    /\ IF ok
       THEN /\ decoderGen' = decoderGen + 1
            /\ decodeCh' = <<>>
            /\ decodeTx' = "open"
            /\ worker' = "running"
            /\ oPc' = "streaming"
       ELSE /\ oPc' = "top"
            /\ UNCHANGED <<decoderGen, decodeCh, decodeTx, worker>>
    /\ UNCHANGED <<mode, extVars, inVars, sndVars, udpVars, chanVars, sigVars, session_count, pending_config, config,
                   exitReason, inHand, inputQ, pushed, cooldowns, eventsTaken>>

\* decode_tx.send(frame).await: queued if the decode channel has room,
\* otherwise the Streaming loop waits with the frame in hand
DecodeTxSend(frame) ==
    IF worker = "panicked"
    THEN \* the send fails: break "decode_thread_gone", then drop(decode_tx)
         /\ inHand' = None
         /\ oPc' = "join"
         /\ exitReason' = "decode_thread_gone"
         /\ decodeTx' = "dropped"
         /\ decodeCh' = decodeCh
    ELSE IF Len(decodeCh) < DecodeChanCap
    THEN /\ decodeCh' = MpscSend(decodeCh, frame)
         /\ inHand' = None
         /\ oPc' = "streaming"
         /\ UNCHANGED <<exitReason, decodeTx>>
    ELSE /\ inHand' = Some(frame)
         /\ oPc' = "forward"
         /\ decodeCh' = decodeCh
         /\ UNCHANGED <<exitReason, decodeTx>>

\* The frame branch of the select! (lines 265-284)
OrchStreamFrame ==
    /\ oPc = "streaming"
    /\ frameCh # <<>>
    /\ frameCh' = Tail(frameCh)
    /\ DecodeTxSend(Head(frameCh))
    /\ UNCHANGED <<mode, extVars, inVars, sndVars, udpVars, eventCh, rxDropped, sigVars, session_count, pending_config,
                   config, worker, decoderGen, inputQ,
                   pushed, initLog, hot, cooldowns, eventsTaken>>

\* decode_tx.send(frame).await resumes
OrchForwardResume ==
    /\ oPc = "forward"
    /\ worker = "panicked" \/ Len(decodeCh) < DecodeChanCap
    /\ DecodeTxSend(inHand[1])
    /\ UNCHANGED <<mode, extVars, inVars, sndVars, udpVars, chanVars, sigVars, session_count, pending_config,
                   config, worker, decoderGen, inputQ,
                   pushed, initLog, hot, cooldowns, eventsTaken>>

\* Variant: any change of the config restarts the decoder
ResolutionDiffers_AnyField(new_cfg, cur) == new_cfg # cur

\* Line 304: the comparison that decides a hot reload
ResolutionDiffers(new_cfg, cur) ==
    \/ new_cfg.resolution.width # cur.resolution.width
    \/ new_cfg.resolution.height # cur.resolution.height

\* The exit of the Streaming loop for an event, "" if the loop goes on
ExitFor(ev, cur) ==
    IF ev.type = "SessionStopped" THEN "session_stopped"
    ELSE IF ev.type = "ClientDisconnected" THEN "client_disconnected"
    ELSE IF ev.type = "ConfigUpdated" /\ ResolutionDiffers(ev.config[1], cur)
    THEN "config_updated"
    ELSE ""

\* The event branch of the select! (lines 287-318); on an exit, line 325
\* drops decode_tx and the loop goes to wait for the worker
OrchStreamEvent ==
    /\ oPc = "streaming"
    /\ eventCh[0] # <<>>
    /\ LET ev     == Head(eventCh[0])
           reason == ExitFor(ev, config[1])
       IN
       /\ eventCh' = [eventCh EXCEPT ![0] = Tail(@)]
       /\ eventsTaken' = Append(eventsTaken, ev)
       /\ IF reason = ""
          THEN UNCHANGED <<oPc, exitReason, decodeTx, pending_config, hot>>
          ELSE /\ oPc' = "join"
               /\ exitReason' = reason
               /\ decodeTx' = "dropped"
               /\ IF reason = "config_updated"
                  THEN /\ pending_config' = ev.config
                       /\ hot' = [active |-> TRUE, config |-> ev.config,
                                  taken |-> Len(eventsTaken) + 1, cooldowns |-> cooldowns]
                  ELSE UNCHANGED <<pending_config, hot>>
    /\ UNCHANGED <<mode, extVars, inVars, sndVars, udpVars, frameCh, rxDropped, sigVars, session_count, config, inHand,
                   decodeCh, worker, decoderGen, inputQ,
                   pushed, initLog, cooldowns>>

\* The else branch of the select! (line 320): both channels are closed and
\* empty; line 325 drops decode_tx
OrchStreamClosed ==
    /\ oPc = "streaming"
    /\ frameCh = <<>> /\ FrameClosed
    /\ eventCh[0] = <<>> /\ EventClosed(0)
    /\ oPc' = "join"
    /\ exitReason' = "channels_closed"
    /\ decodeTx' = "dropped"
    /\ UNCHANGED <<mode, extVars, inVars, sndVars, udpVars, chanVars, sigVars, session_count,
                   pending_config, config, inHand, decodeCh, worker, decoderGen, inputQ,
                   pushed, initLog, hot, cooldowns, eventsTaken>>

\* Variant: every exit of the Streaming loop ends run_display
TerminalReason_Any(reason) == TRUE

\* Lines 335-338: the exit that breaks 'reconnect
TerminalReason(reason) == reason = "channels_closed"

\* Variant: the loop does not wait for the worker
JoinReady_NoWait(w) == TRUE

\* decode_handle.await completes once the worker's closure has returned or
\* panicked
JoinReady(w) == w \in {"finished", "panicked"}

\* decode_handle.await returns (line 326); the iteration ends (lines 328-342)
OrchJoin ==
    /\ oPc = "join"
    /\ JoinReady(worker)
    /\ worker' = IF worker \in {"finished", "panicked"} THEN "none" ELSE worker
    /\ decodeTx' = "none"
    /\ IF TerminalReason(exitReason)
       THEN /\ oPc' = "exited"
            /\ rxDropped' = TRUE
       ELSE /\ oPc' = "top"
            /\ rxDropped' = rxDropped
    /\ UNCHANGED <<mode, extVars, inVars, sndVars, udpVars, frameCh, eventCh, sigVars, session_count,
                   pending_config, config,
                   exitReason, inHand, decodeCh, decoderGen, inputQ,
                   pushed, initLog, hot, cooldowns, eventsTaken>>

---------------------------------------------------------------------------
(* The decode worker (lines 223-253) *)

\* Variant: the event is queued whatever the queue holds
InputTrySend_Unbounded(q, evs) ==
    IF evs # <<>> THEN Append(q, evs[1]) ELSE q

\* Variant: the event is put at the head of the queue
InputTrySend_Front(q, evs) ==
    IF evs # <<>> /\ Len(q) < InputChanCap THEN <<evs[1]>> \o q ELSE q

\* InputSender::try_send: the event is queued if the input queue has room and
\* dropped otherwise
InputTrySend(q, evs) ==
    IF evs # <<>> /\ Len(q) < InputChanCap THEN Append(q, evs[1]) ELSE q

\* One iteration: a frame is taken and pushed to the decoder, then the input
\* events the decoder polled (n of them) are offered to the input queue
WorkerStep(n) ==
    /\ worker = "running"
    /\ decodeCh # <<>>
    /\ pushed' = Append(pushed, [frame |-> Head(decodeCh), gen |-> decoderGen])
    /\ decodeCh' = Tail(decodeCh)
    /\ inputQ' = InputTrySend(inputQ, [k \in 1..n |-> "input"])
    /\ UNCHANGED <<mode, extVars, inVars, sndVars, udpVars, chanVars, sigVars, oPc, session_count, pending_config,
                   config, exitReason, inHand, decodeTx, worker, decoderGen,
                   initLog, hot, cooldowns, eventsTaken>>

\* The worker's closure panics (in the decoder library): the thread ends and
\* decode_rx is dropped with the frames still queued
WorkerPanic ==
    /\ worker = "running"
    /\ worker' = "panicked"
    /\ decodeCh' = <<>>
    /\ UNCHANGED <<mode, extVars, inVars, sndVars, udpVars, chanVars, sigVars, oPc, session_count,
                   pending_config, config, exitReason, inHand, decodeTx, decoderGen, inputQ,
                   pushed, initLog, hot, cooldowns, eventsTaken>>

\* Variant: the worker returns as soon as decode_tx is dropped, and decode_rx
\* is dropped with the frames still queued
WorkerExit_Early ==
    /\ worker = "running"
    /\ decodeTx = "dropped"
    /\ worker' = "finished"
    /\ decodeCh' = <<>>
    /\ UNCHANGED <<mode, extVars, inVars, sndVars, udpVars, chanVars, sigVars, oPc, session_count, pending_config,
                   config, exitReason, inHand, decodeTx, decoderGen, inputQ,
                   pushed, initLog, hot, cooldowns, eventsTaken>>

\* blocking_recv() returns None: the channel is empty and decode_tx dropped
WorkerExit ==
    /\ worker = "running"
    /\ decodeCh = <<>>
    /\ decodeTx = "dropped"
    /\ worker' = "finished"
    /\ UNCHANGED <<mode, extVars, inVars, sndVars, udpVars, chanVars, sigVars, oPc, session_count, pending_config,
                   config, exitReason, inHand, decodeCh, decodeTx, decoderGen, inputQ,
                   pushed, initLog, hot, cooldowns, eventsTaken>>

---------------------------------------------------------------------------
(* The input path: the decode workers offer events to the shared input     *)
(* queue; the forwarder task spawned by an accepted hello takes them       *)

\* SignalingMessage::input_event
input_event(event) ==
    [type |-> "input_event", session_id |-> None, device_name |-> None,
     config |-> None, pairing_pin |-> None, input_event |-> Some(event)]

\* A decode worker polls one event from its window and offers it to the input
\* queue; the events are numbered in the order in which they are offered.  The
\* log keeps whether the queue had room, and the connections whose handler had
\* returned by then after their forwarder had taken the queue
InputPoll ==
    /\ Len(inputLog) < MaxInputEvents
    /\ LET event == Len(inputLog) + 1
       IN  /\ inputQ' = InputTrySend(inputQ, <<event>>)
           /\ inputLog' = Append(inputLog,
                  [ev |-> event,
                   accepted |-> Len(inputQ) < InputChanCap,
                   ended |-> {c \in DOMAIN conn :
                                 conn[c].pc = "closed" /\ fwd[c].pc # "none"}])
    /\ UNCHANGED <<mode, extVars, sndVars, udpVars, chanVars, sigVars, oPc, session_count,
                   pending_config, config, exitReason, inHand, decodeCh, decodeTx, worker,
                   decoderGen, pushed, initLog, hot, cooldowns, eventsTaken,
                   fwd, inputLock, fwdLog>>

\* Variant: the mutex around input_rx admits every forwarder
MutexFree_Open(lock) == TRUE

\* tokio::sync::Mutex: lock() completes only while no guard is alive
MutexFree(lock) == lock = 0

\* The forwarder spawned by the handler of c passes irx.lock().await; it keeps
\* the guard until it returns
FwdAcquire(c) ==
    /\ conn[c].forwarder = "spawned"
    /\ fwd[c].pc = "none"
    /\ MutexFree(inputLock)
    /\ inputLock' = c
    /\ fwd' = [fwd EXCEPT ![c].pc = "holding"]
    /\ fwdLog' = Append(fwdLog, [op |-> "lock", conn |-> c, ev |-> 0, ok |-> TRUE])
    /\ UNCHANGED <<mode, extVars, sndVars, udpVars, chanVars, sigVars, appVars, inputLog>>

\* input_rx.recv().await returns the oldest event of the queue
FwdRecv(c) ==
    /\ fwd[c].pc = "holding"
    /\ inputQ # <<>>
    /\ fwd' = [fwd EXCEPT ![c] = [pc |-> "writing", ev |-> Some(Head(inputQ))]]
    /\ inputQ' = Tail(inputQ)
    /\ fwdLog' = Append(fwdLog, [op |-> "recv", conn |-> c, ev |-> Head(inputQ), ok |-> TRUE])
    /\ UNCHANGED <<mode, extVars, sndVars, udpVars, chanVars, sigVars, oPc, session_count,
                   pending_config, config, exitReason, inHand, decodeCh, decodeTx, worker,
                   decoderGen, pushed, initLog, hot, cooldowns, eventsTaken,
                   inputLock, inputLog>>

\* Variant: the forwarder returns after every write
WriteBreaks_Always(ok) == TRUE

\* Variant: the forwarder goes on after a failed write
WriteBreaks_Never(ok) == FALSE

\* `if send_msg_split(..).is_err() { break; }`
WriteBreaks(ok) == ~ok

\* The forwarder writes the input_event message under the writer's mutex; a
\* failed write ends the task, which drops the guard of input_rx
FwdWrite(c, ok) ==
    /\ fwd[c].pc = "writing"
    /\ wire' = [wire EXCEPT ![c] = Append(@, [msg |-> input_event(fwd[c].ev[1]), ok |-> ok])]
    /\ fwdLog' = Append(fwdLog, [op |-> "write", conn |-> c, ev |-> fwd[c].ev[1], ok |-> ok])
    /\ IF WriteBreaks(ok)
       THEN /\ fwd' = [fwd EXCEPT ![c] = [pc |-> "exited", ev |-> None]]
            /\ inputLock' = 0
       ELSE /\ fwd' = [fwd EXCEPT ![c] = [pc |-> "holding", ev |-> None]]
            /\ inputLock' = inputLock
    /\ UNCHANGED <<mode, extVars, sndVars, udpVars, chanVars, lsn, conn, evHist, nSig, appVars,
                   inputLog>>

\* No forwarder yet, the mutex around input_rx free
InputInit ==
    /\ fwd = [c \in Conns(mode) |-> [pc |-> "none", ev |-> None]]
    /\ inputLock = 0
    /\ inputLog = <<>>
    /\ fwdLog = <<>>

AppInit ==
    /\ oPc = "top"
    /\ session_count = 0
    /\ pending_config = None
    /\ config = None
    /\ exitReason = ""
    /\ inHand = None
    /\ decodeCh = <<>>
    /\ decodeTx = "none"
    /\ worker = "none"
    /\ decoderGen = 0
    /\ inputQ = <<>>
    /\ pushed = <<>>
    /\ initLog = <<>>
    /\ hot = [active |-> FALSE, config |-> None, taken |-> 0, cooldowns |-> 0]
    /\ cooldowns = 0
    /\ eventsTaken = <<>>

UdpInit(m) ==
    /\ mode = m
    /\ now = 0
    /\ frames = <<>>
    /\ udpPc = "recv"
    /\ udpPending = None
    /\ frameCh = <<>>
    /\ counter = 0
    /\ rxDropped = FALSE
    /\ udpLog = <<>>
    /\ lastDgram = <<>>

---------------------------------------------------------------------------
(* Port helpers of the two crates (u16 arithmetic on a u8 display index) *)

VIDEO_PORT == 7878
SIGNALING_PORT == 7879
SENDER_VIDEO_PORT == 7878
SENDER_SIGNALING_PORT == 7879

DisplayIndexes == 0..255     \* u8

\* the result of a u16 operation whose mathematical value is x; an overflow
\* panics in a debug build and wraps in a release build
U16(x) == [value |-> x % 65536, overflow |-> x > 65535]

\* `(display_index * 2) as u16`: the product taken in u8
PortOffset_U8(display_index) ==
    [value |-> (display_index * 2) % 256, overflow |-> display_index * 2 > 255]
\* `(display_index as u16) * 2`
PortOffset(display_index) == U16(display_index * 2)

video_port(display_index) ==
    LET off == PortOffset(display_index)
        sum == U16(VIDEO_PORT + off.value)
    IN  [value |-> sum.value, overflow |-> off.overflow \/ sum.overflow]

signaling_port(display_index) ==
    LET off == PortOffset(display_index)
        sum == U16(SIGNALING_PORT + off.value)
    IN  [value |-> sum.value, overflow |-> off.overflow \/ sum.overflow]

sender_video_port(display_index) ==
    LET off == U16(display_index * 2)
        sum == U16(SENDER_VIDEO_PORT + off.value)
    IN  [value |-> sum.value, overflow |-> off.overflow \/ sum.overflow]

sender_signaling_port(display_index) ==
    LET off == U16(display_index * 2)
        sum == U16(SENDER_SIGNALING_PORT + off.value)
    IN  [value |-> sum.value, overflow |-> off.overflow \/ sum.overflow]

PortInputs == [fn : {"ports"}, j : DisplayIndexes, k : DisplayIndexes]

\* the ports both crates compute for two displays j and k
ApplyPorts ==
    /\ mode = "pure"
    /\ fnIn # None /\ fnIn[1].fn = "ports" /\ fnOut = None
    /\ fnOut' = Some([rx_video   |-> [d \in {fnIn[1].j, fnIn[1].k} |-> video_port(d)],
                      rx_sig     |-> [d \in {fnIn[1].j, fnIn[1].k} |-> signaling_port(d)],
                      tx_video   |-> [d \in {fnIn[1].j, fnIn[1].k} |-> sender_video_port(d)],
                      tx_sig     |-> [d \in {fnIn[1].j, fnIn[1].k} |-> sender_signaling_port(d)]])
    /\ UNCHANGED <<mode, fnIn, cliVars, runVars, udpVars, chanVars, sigVars, appVars, inVars, sndVars>>

---------------------------------------------------------------------------
(* serde: StreamConfig from a JSON object.  An object is the sequence of its  *)
(* <<key, value>> members in document order.                                  *)

\* impl Default for StreamConfig
StreamConfig_Default ==
    [resolution |-> Resolution_FHD, target_fps |-> 30, max_bitrate_bps |-> 8000000,
     codec |-> "H264", low_latency_mode |-> TRUE]

StreamConfigFields ==
    {"resolution", "target_fps", "max_bitrate_bps", "codec", "low_latency_mode"}

\* the field a key names when only the field's own name is recognised
FieldOfKey_NoAlias(key) ==
    IF key \in StreamConfigFields THEN key ELSE "__ignore"

\* the field a key names: the field's name or its #[serde(alias = ...)]
FieldOfKey(key) ==
    CASE key = "targetFPS"      -> "target_fps"
      [] key = "maxBitrateBps"  -> "max_bitrate_bps"
      [] key = "lowLatencyMode" -> "low_latency_mode"
      [] key \in StreamConfigFields -> key
      [] OTHER -> "__ignore"

\* #[serde(rename_all = "lowercase")] enum VideoCodec
VideoCodec_from_json(str) ==
    CASE str = "h264" -> Some("H264")
      [] str = "h265" -> Some("H265")
      [] OTHER -> None

MembersFor(obj, field) == {i \in 1..Len(obj) : FieldOfKey(obj[i][1]) = field}

MemberOr(obj, field, dflt) ==
    IF MembersFor(obj, field) = {} THEN dflt
    ELSE obj[CHOOSE i \in MembersFor(obj, field) : TRUE][2]

\* the derived Deserialize of StreamConfig (#[serde(default)] on the struct),
\* for members whose values have the fields' JSON types
StreamConfig_from_json(obj) ==
    IF \E f \in StreamConfigFields : Cardinality(MembersFor(obj, f)) > 1
    THEN [ok |-> FALSE, err |-> "duplicate field"]
    ELSE IF /\ MembersFor(obj, "codec") # {}
            /\ VideoCodec_from_json(MemberOr(obj, "codec", "")) = None
    THEN [ok |-> FALSE, err |-> "unknown variant"]
    ELSE [ok |-> TRUE,
          value |->
            [resolution       |-> MemberOr(obj, "resolution", StreamConfig_Default.resolution),
             target_fps       |-> MemberOr(obj, "target_fps", StreamConfig_Default.target_fps),
             max_bitrate_bps  |-> MemberOr(obj, "max_bitrate_bps",
                                           StreamConfig_Default.max_bitrate_bps),
             codec            |-> IF MembersFor(obj, "codec") = {}
                                  THEN StreamConfig_Default.codec
                                  ELSE VideoCodec_from_json(MemberOr(obj, "codec", ""))[1],
             low_latency_mode |-> MemberOr(obj, "low_latency_mode",
                                           StreamConfig_Default.low_latency_mode)]]

SnakeKeys ==
    [resolution |-> "resolution", target_fps |-> "target_fps",
     max_bitrate_bps |-> "max_bitrate_bps", codec |-> "codec",
     low_latency_mode |-> "low_latency_mode"]
CamelKeys ==
    [resolution |-> "resolution", target_fps |-> "targetFPS",
     max_bitrate_bps |-> "maxBitrateBps", codec |-> "codec",
     low_latency_mode |-> "lowLatencyMode"]

Member(key, opt) == IF opt = None THEN <<>> ELSE << <<key, opt[1]>> >>

\* the JSON object with the given field values (None = member absent), spelled with keys
ConfigJson(keys, v) ==
    Member(keys.resolution, v.resolution)
      \o Member(keys.target_fps, v.target_fps)
      \o (IF v.unknown THEN << <<"displayIndex", 1>> >> ELSE <<>>)
      \o Member(keys.max_bitrate_bps, v.max_bitrate_bps)
      \o Member(keys.codec, v.codec)
      \o Member(keys.low_latency_mode, v.low_latency_mode)

ConfigInputs ==
    [fn : {"config"},
     resolution : {None, Some(Resolution_FHD), Some(Resolution_QHD)},
     target_fps : {None, Some(30), Some(60)},
     max_bitrate_bps : {None, Some(8000000), Some(12000000)},
     codec : {None, Some("h264"), Some("h265"), Some("H264")},
     low_latency_mode : {None, Some(TRUE), Some(FALSE)},
     unknown : BOOLEAN]

\* serde_json::from_str::<StreamConfig> on the two spellings of one object
ApplyConfig ==
    /\ mode = "pure"
    /\ fnIn # None /\ fnIn[1].fn = "config" /\ fnOut = None
    /\ fnOut' = Some([camel |-> StreamConfig_from_json(ConfigJson(CamelKeys, fnIn[1])),
                      snake |-> StreamConfig_from_json(ConfigJson(SnakeKeys, fnIn[1]))])
    /\ UNCHANGED <<mode, fnIn, cliVars, runVars, udpVars, chanVars, sigVars, appVars, inVars, sndVars>>

---------------------------------------------------------------------------
(* Signaling framing: what a reader does with the 4-byte length prefix *)

\* the sender's read_msg once read_exact has filled len_buf: the size of the
\* body buffer it allocates and reads into, or the error it returns
read_msg_body(len_buf) ==
    LET len == FromBE32(len_buf, 0)
    IN  IF len > 1048576
        THEN [rejected |-> TRUE,  body_len |-> 0]
        ELSE [rejected |-> FALSE, body_len |-> len]

\* the receiver's handle_signaling_conn once read_exact has filled len_bytes:
\* body_buf.resize(msg_len, 0), then read_exact into it
handler_read_body(len_bytes) ==
    LET msg_len == FromBE32(len_bytes, 0)
    IN  [rejected |-> FALSE, body_len |-> msg_len]

\* length prefixes around 1 MiB and at the ends of the range (below 2^31)
LengthInputs ==
    [fn : {"length"},
     len_bytes : {<<b1, b2, b3, b4>> : b1 \in {0, 127}, b2 \in {0, 15, 16, 255},
                                       b3 \in {0, 255}, b4 \in {0, 1, 255}}]

ApplyReadLength ==
    /\ mode = "pure"
    /\ fnIn # None /\ fnIn[1].fn = "length" /\ fnOut = None
    /\ fnOut' = Some([receiver |-> handler_read_body(fnIn[1].len_bytes),
                      sender   |-> read_msg_body(fnIn[1].len_bytes)])
    /\ UNCHANGED <<mode, fnIn, cliVars, runVars, udpVars, chanVars, sigVars, appVars, inVars, sndVars>>

---------------------------------------------------------------------------
(* run(): one run_display task per display, each with the channels start_all  *)
(* made for it.  The session loop is reduced to its positions and to what it  *)
(* takes from the channels; the decoder is reduced to whether it initialises. *)

\* displays of the multi-display runs
display_count == 2
\* frames and signaling events the transport tasks deliver in one run, all displays together
MaxDisplayInputs == 2

RunDisplays == 0..(display_count - 1)

\* the signaling events of a display; ConfigUpdated stands for one that changes the resolution
DisplayEvents == {"SessionStarted", "SessionStopped", "ClientDisconnected", "ConfigUpdated"}

\* what the transport tasks of displays 0..d have delivered so far
RECURSIVE InputsUpTo(_)
InputsUpTo(d) ==
    IF d < 0 THEN 0
    ELSE Len(dLog[d]) + Len(dFrameCh[d]) + Len(dEventCh[d]) + InputsUpTo(d - 1)
DisplayInputs == InputsUpTo(display_count - 1)

\* every display's task reads the channels of display 0
ChannelsOf_Shared(d) == 0
\* the channels run_display(ch, ...) of display d reads: its own DisplayChannels
ChannelsOf(d) == d

\* run_udp_receiver of display d sends a reassembled frame
TransportFrame(d) ==
    /\ mode = "multi"
    /\ dOpen[d].frame
    /\ Len(dFrameCh[d]) < FrameChanCap
    /\ DisplayInputs < MaxDisplayInputs
    /\ dFrameCh' = [dFrameCh EXCEPT ![d] = MpscSend(@, [display |-> d, item |-> "frame"])]
    /\ UNCHANGED <<dPc, dEventCh, dOpen, dLog, runIdx>>
    /\ UNCHANGED <<mode, fnVars, cliVars, udpVars, chanVars, sigVars, appVars, inVars, sndVars>>

\* a connection handler of display d sends a signaling event
TransportEvent(d) ==
    /\ mode = "multi"
    /\ dOpen[d].event
    /\ Len(dEventCh[d]) < EventChanCap
    /\ DisplayInputs < MaxDisplayInputs
    /\ \E ev \in DisplayEvents :
         dEventCh' = [dEventCh EXCEPT ![d] = MpscSend(@, [display |-> d, item |-> ev])]
    /\ UNCHANGED <<dPc, dFrameCh, dOpen, dLog, runIdx>>
    /\ UNCHANGED <<mode, fnVars, cliVars, udpVars, chanVars, sigVars, appVars, inVars, sndVars>>

\* a transport task of display d ends and drops its sender
TransportClose(d) ==
    /\ mode = "multi"
    /\ \E which \in {"frame", "event"} :
         /\ dOpen[d][which]
         /\ dOpen' = [dOpen EXCEPT ![d][which] = FALSE]
    /\ UNCHANGED <<dPc, dFrameCh, dEventCh, dLog, runIdx>>
    /\ UNCHANGED <<mode, fnVars, cliVars, udpVars, chanVars, sigVars, appVars, inVars, sndVars>>

\* the position after the decoder initialisation at the top of 'reconnect
AfterDecoderInit(initialised) == IF initialised THEN "streaming" ELSE "wait_hello"

\* run_display of display d waiting for a session: event_rx.recv()
DisplayWaitHello(d) ==
    /\ mode = "multi"
    /\ dPc[d] = "wait_hello"
    /\ LET c == ChannelsOf(d)
       IN  IF dEventCh[c] # <<>>
           THEN /\ dEventCh' = [dEventCh EXCEPT ![c] = Tail(@)]
                /\ dLog' = [dLog EXCEPT ![d] = Append(@, Head(dEventCh[c]))]
                /\ IF Head(dEventCh[c]).item = "SessionStarted"
                   THEN \E initialised \in BOOLEAN :
                          dPc' = [dPc EXCEPT ![d] = AfterDecoderInit(initialised)]
                   ELSE UNCHANGED dPc
           ELSE /\ ~dOpen[c].event
                /\ dPc' = [dPc EXCEPT ![d] = "finished"]
                /\ UNCHANGED <<dEventCh, dLog>>
    /\ UNCHANGED <<dFrameCh, dOpen, runIdx>>
    /\ UNCHANGED <<mode, fnVars, cliVars, udpVars, chanVars, sigVars, appVars, inVars, sndVars>>

\* the Streaming loop of display d: the frame branch of the select!
DisplayStreamFrame(d) ==
    /\ mode = "multi"
    /\ dPc[d] = "streaming"
    /\ LET c == ChannelsOf(d)
       IN  /\ dFrameCh[c] # <<>>
           /\ dFrameCh' = [dFrameCh EXCEPT ![c] = Tail(@)]
           /\ dLog' = [dLog EXCEPT ![d] = Append(@, Head(dFrameCh[c]))]
           /\ \E worker_gone \in BOOLEAN :
                dPc' = [dPc EXCEPT ![d] = IF worker_gone THEN "wait_hello" ELSE "streaming"]
    /\ UNCHANGED <<dEventCh, dOpen, runIdx>>
    /\ UNCHANGED <<mode, fnVars, cliVars, udpVars, chanVars, sigVars, appVars, inVars, sndVars>>

\* the Streaming loop of display d: the event branch of the select!
DisplayStreamEvent(d) ==
    /\ mode = "multi"
    /\ dPc[d] = "streaming"
    /\ LET c == ChannelsOf(d)
       IN  /\ dEventCh[c] # <<>>
           /\ dEventCh' = [dEventCh EXCEPT ![c] = Tail(@)]
           /\ dLog' = [dLog EXCEPT ![d] = Append(@, Head(dEventCh[c]))]
           /\ CASE Head(dEventCh[c]).item \in {"SessionStopped", "ClientDisconnected"} ->
                     dPc' = [dPc EXCEPT ![d] = "wait_hello"]
                [] Head(dEventCh[c]).item = "ConfigUpdated" ->
                     \E initialised \in BOOLEAN :
                        dPc' = [dPc EXCEPT ![d] = AfterDecoderInit(initialised)]
                [] OTHER -> UNCHANGED dPc
    /\ UNCHANGED <<dFrameCh, dOpen, runIdx>>
    /\ UNCHANGED <<mode, fnVars, cliVars, udpVars, chanVars, sigVars, appVars, inVars, sndVars>>

\* the Streaming loop of display d: the else branch of the select!, then
\* break 'reconnect
DisplayStreamClosed(d) ==
    /\ mode = "multi"
    /\ dPc[d] = "streaming"
    /\ LET c == ChannelsOf(d)
       IN  /\ dFrameCh[c] = <<>> /\ ~dOpen[c].frame
           /\ dEventCh[c] = <<>> /\ ~dOpen[c].event
    /\ dPc' = [dPc EXCEPT ![d] = "finished"]
    /\ UNCHANGED <<dFrameCh, dEventCh, dOpen, dLog, runIdx>>
    /\ UNCHANGED <<mode, fnVars, cliVars, udpVars, chanVars, sigVars, appVars, inVars, sndVars>>

\* run() moves past the first finished handle
HandleDone_Any(idx) == \E d \in RunDisplays : dPc[d] = "finished"
\* `h.await` of the handle at idx completes
HandleDone(idx) == dPc[idx] = "finished"

\* run(): `for h in handles { let _ = h.await; }`
RunJoin ==
    /\ mode = "multi"
    /\ runIdx < display_count
    /\ HandleDone(runIdx)
    /\ runIdx' = runIdx + 1
    /\ UNCHANGED <<dPc, dFrameCh, dEventCh, dOpen, dLog>>
    /\ UNCHANGED <<mode, fnVars, cliVars, udpVars, chanVars, sigVars, appVars, inVars, sndVars>>

RunReturned == runIdx = display_count

RunInit ==
    /\ dPc = [d \in RunDisplays |-> "wait_hello"]
    /\ dFrameCh = [d \in RunDisplays |-> <<>>]
    /\ dEventCh = [d \in RunDisplays |-> <<>>]
    /\ dOpen = [d \in RunDisplays |-> [frame |-> TRUE, event |-> TRUE]]
    /\ dLog = [d \in RunDisplays |-> <<>>]
    /\ runIdx = 0

---------------------------------------------------------------------------
(* The sender's SignalingClient: send_hello, start_recv_loop and recv_loop *)

\* read_msg calls of one client, send_hello and recv_loop together
MaxClientReads == 4
\* stands for the capacity 256 of the channel of start_recv_loop
ClientInputCap == 2

\* a SignalingMessage as the client parses it (the fields the client looks at)
ClientMsg(type, accepted, reason, session_id, ev) ==
    [msg_type |-> type, accepted |-> accepted, reason |-> reason,
     session_id |-> session_id, input_event |-> ev]

ReadOk(msg) == [ok |-> TRUE, msg |-> msg]
\* read_msg failed: the stream ended or broke, the length exceeded 1 MiB, or the
\* body did not parse
ReadErr == [ok |-> FALSE]

\* what read_msg may return: the receiver's messages and a failure
ServerItems ==
    { ReadOk(ClientMsg("hello_ack", Some(TRUE), None, Some("s1"), None)),
      ReadOk(ClientMsg("hello_ack", Some(FALSE), Some("invalid pairing pin"), Some("s1"), None)),
      ReadOk(ClientMsg("hello_ack", None, None, None, None)),
      ReadOk(ClientMsg("keepalive", None, None, None, None)),
      ReadOk(ClientMsg("input_event", None, None, None, Some("e1"))),
      ReadOk(ClientMsg("input_event", None, None, None, Some("e2"))),
      ReadOk(ClientMsg("input_event", None, None, None, None)),
      ReadOk(ClientMsg("stop", None, None, Some("s1"), None)),
      ReadErr }

ClientReads == Len(helloRead) + Len(recvRead)

\* reply.accepted.unwrap_or(true)
AckAccepted_DefaultTrue(reply) ==
    IF reply.accepted = None THEN TRUE ELSE reply.accepted[1]
\* reply.accepted.unwrap_or(false)
AckAccepted(reply) ==
    IF reply.accepted = None THEN FALSE ELSE reply.accepted[1]

\* the HelloAck send_hello returns for a hello_ack
HelloAck(reply) ==
    [accepted |-> AckAccepted(reply), reason |-> reply.reason, session_id |-> reply.session_id]

Ok(x) == [ok |-> TRUE, value |-> x]
Err == [ok |-> FALSE]

\* send_hello up to write_msg(hello).await?
SendHelloWrite ==
    /\ mode = "client"
    /\ cliPc = "connected"
    /\ \E written \in BOOLEAN :
         IF written
         THEN /\ cliWritten' = Append(cliWritten, "hello")
              /\ cliPc' = "await_ack"
              /\ UNCHANGED cliResult
         ELSE /\ cliResult' = Some(Err)
              /\ cliPc' = "returned"
              /\ UNCHANGED cliWritten
    /\ UNCHANGED <<helloRead, recvRead, cliInputCh, cliHeld, cliRxAlive, cliTaken>>
    /\ UNCHANGED <<mode, fnVars, runVars, udpVars, chanVars, sigVars, appVars, inVars, sndVars>>

\* one turn of the loop of send_hello: read_msg(...).await?, then the match
SendHelloRead ==
    /\ mode = "client"
    /\ cliPc = "await_ack"
    /\ ClientReads < MaxClientReads
    /\ \E item \in ServerItems :
         /\ helloRead' = Append(helloRead, item)
         /\ IF ~item.ok
            THEN cliResult' = Some(Err) /\ cliPc' = "returned"
            ELSE IF item.msg.msg_type = "hello_ack"
            THEN cliResult' = Some(Ok(HelloAck(item.msg))) /\ cliPc' = "returned"
            ELSE UNCHANGED <<cliResult, cliPc>>
    /\ UNCHANGED <<cliWritten, recvRead, cliInputCh, cliHeld, cliRxAlive, cliTaken>>
    /\ UNCHANGED <<mode, fnVars, runVars, udpVars, chanVars, sigVars, appVars, inVars, sndVars>>

\* start_recv_loop: the channel is created and recv_loop spawned
StartRecvLoop ==
    /\ mode = "client"
    /\ cliPc = "returned" /\ cliResult # None /\ cliResult[1].ok
    /\ cliPc' = "recv"
    /\ UNCHANGED <<cliWritten, helloRead, cliResult, recvRead, cliInputCh, cliHeld,
                   cliRxAlive, cliTaken>>
    /\ UNCHANGED <<mode, fnVars, runVars, udpVars, chanVars, sigVars, appVars, inVars, sndVars>>

\* recv_loop returns on a message of this type only when it is a failed read
EndsRecvLoop_ErrOnly(item) == ~item.ok
\* recv_loop returns: Err(e) or MessageType::Stop
EndsRecvLoop(item) == ~item.ok \/ item.msg.msg_type = "stop"

\* the event recv_loop publishes for what it read (Option)
EventToPublish(item) ==
    IF item.ok /\ item.msg.msg_type = "input_event" THEN item.msg.input_event ELSE None

\* one turn of recv_loop: read_msg, then the match up to input_tx.send(event)
RecvLoopRead ==
    /\ mode = "client"
    /\ cliPc = "recv"
    /\ ClientReads < MaxClientReads
    /\ \E item \in ServerItems :
         /\ recvRead' = Append(recvRead, item)
         /\ IF EndsRecvLoop(item)
            THEN cliPc' = "recv_done" /\ UNCHANGED <<cliInputCh, cliHeld>>
            ELSE IF EventToPublish(item) = None
            THEN UNCHANGED <<cliPc, cliInputCh, cliHeld>>
            ELSE IF ~cliRxAlive
            THEN cliPc' = "recv_done" /\ UNCHANGED <<cliInputCh, cliHeld>>
            ELSE IF Len(cliInputCh) < ClientInputCap
            THEN /\ cliInputCh' = MpscSend(cliInputCh, EventToPublish(item)[1])
                 /\ UNCHANGED <<cliPc, cliHeld>>
            ELSE /\ cliHeld' = EventToPublish(item)
                 /\ cliPc' = "recv_send"
                 /\ UNCHANGED cliInputCh
    /\ UNCHANGED <<cliWritten, helloRead, cliResult, cliRxAlive, cliTaken>>
    /\ UNCHANGED <<mode, fnVars, runVars, udpVars, chanVars, sigVars, appVars, inVars, sndVars>>

\* input_tx.send(event).await completes: room in the channel, or the receiver is gone
RecvLoopSendResume ==
    /\ mode = "client"
    /\ cliPc = "recv_send"
    /\ IF ~cliRxAlive
       THEN /\ cliPc' = "recv_done"
            /\ cliHeld' = None
            /\ UNCHANGED cliInputCh
       ELSE /\ Len(cliInputCh) < ClientInputCap
            /\ cliInputCh' = MpscSend(cliInputCh, cliHeld[1])
            /\ cliHeld' = None
            /\ cliPc' = "recv"
    /\ UNCHANGED <<cliWritten, helloRead, cliResult, recvRead, cliRxAlive, cliTaken>>
    /\ UNCHANGED <<mode, fnVars, runVars, udpVars, chanVars, sigVars, appVars, inVars, sndVars>>

\* input_tx was dropped: recv_loop has returned
ClientInputClosed == cliPc = "recv_done"

\* the caller's input_rx.recv(): the next event, or None once the channel is
\* closed and empty
ClientInputRecv ==
    /\ mode = "client"
    /\ cliPc \in {"recv", "recv_send", "recv_done"}
    /\ cliRxAlive
    /\ IF cliInputCh # <<>>
       THEN /\ cliTaken' = Append(cliTaken, Some(Head(cliInputCh)))
            /\ cliInputCh' = Tail(cliInputCh)
       ELSE /\ ClientInputClosed
            /\ (IF cliTaken = <<>> THEN TRUE ELSE cliTaken[Len(cliTaken)] # None)
            /\ cliTaken' = Append(cliTaken, None)
            /\ UNCHANGED cliInputCh
    /\ UNCHANGED <<cliPc, cliWritten, helloRead, cliResult, recvRead, cliHeld, cliRxAlive>>
    /\ UNCHANGED <<mode, fnVars, runVars, udpVars, chanVars, sigVars, appVars, inVars, sndVars>>

\* the caller drops input_rx
ClientInputDrop ==
    /\ mode = "client"
    /\ cliPc \in {"recv", "recv_send"}
    /\ cliRxAlive
    /\ cliRxAlive' = FALSE
    /\ cliInputCh' = <<>>
    /\ UNCHANGED <<cliPc, cliWritten, helloRead, cliResult, recvRead, cliHeld, cliTaken>>
    /\ UNCHANGED <<mode, fnVars, runVars, udpVars, chanVars, sigVars, appVars, inVars, sndVars>>

CliInit ==
    /\ cliPc = "connected"
    /\ cliWritten = <<>>
    /\ helloRead = <<>>
    /\ cliResult = None
    /\ recvRead = <<>>
    /\ cliInputCh = <<>>
    /\ cliHeld = None
    /\ cliRxAlive = TRUE
    /\ cliTaken = <<>>

FnInit == fnIn = None /\ fnOut = None
ExtInit == FnInit /\ CliInit /\ RunInit

InitClient ==
    /\ UdpInit("client") /\ SigInit /\ AppInit /\ InputInit /\ SendInit /\ ExtInit

NextClient ==
    \/ SendHelloWrite
    \/ SendHelloRead
    \/ StartRecvLoop
    \/ RecvLoopRead
    \/ RecvLoopSendResume
    \/ ClientInputRecv
    \/ ClientInputDrop

SpecClient == InitClient /\ [][NextClient]_vars

---------------------------------------------------------------------------
(* The transport tasks of a display whose channel receivers are dropped while *)
(* they run (SpecDrop)                                                        *)

InitDrop == UdpInit("drop") /\ SigInit /\ AppInit /\ InputInit /\ SendInit /\ ExtInit

NextDrop ==
    \/ UdpRecvAny
    \/ UdpSendResume
    \/ FrameRxTake
    \/ \E c \in Conns(mode) : TcpConnect(c)
    \/ \E c \in Conns(mode) : ListenerAccept(c)
    \/ \E c \in Conns(mode) : HandshakeOk(c)
    \/ \E c \in Conns(mode) : HandshakeFail(c)
    \/ \E c \in Conns(mode) : ConnRecvAny(c)
    \/ \E c \in Conns(mode) : ConnReadErr(c)
    \/ \E c \in Conns(mode) : ConnBadJson(c)
    \/ \E c \in Conns(mode) : ConnSendResume(c)
    \/ \E d \in Displays(mode) : EventRxTake(d)
    \/ ReceiversDrop

SpecDrop == InitDrop /\ [][NextDrop]_vars

---------------------------------------------------------------------------
(* run() with its display tasks and their transport (SpecMulti) *)

InitMulti ==
    /\ UdpInit("multi") /\ SigInit /\ AppInit /\ InputInit /\ SendInit /\ ExtInit

NextMulti ==
    \/ \E d \in RunDisplays : TransportFrame(d)
    \/ \E d \in RunDisplays : TransportEvent(d)
    \/ \E d \in RunDisplays : TransportClose(d)
    \/ \E d \in RunDisplays : DisplayWaitHello(d)
    \/ \E d \in RunDisplays : DisplayStreamFrame(d)
    \/ \E d \in RunDisplays : DisplayStreamEvent(d)
    \/ \E d \in RunDisplays : DisplayStreamClosed(d)
    \/ RunJoin

SpecMulti == InitMulti /\ [][NextMulti]_vars

---------------------------------------------------------------------------
(* Pure functions, each applied to one input drawn from a bounded set (SpecPure) *)

PureInputs == PortInputs \cup ConfigInputs \cup LengthInputs

InitPure ==
    /\ UdpInit("pure") /\ SigInit /\ AppInit /\ InputInit /\ SendInit /\ CliInit /\ RunInit
    /\ fnIn \in {Some(x) : x \in PureInputs}
    /\ fnOut = None

NextPure ==
    \/ ApplyPorts
    \/ ApplyConfig
    \/ ApplyReadLength

SpecPure == InitPure /\ [][NextPure]_vars

---------------------------------------------------------------------------
(* The UDP ingress task of one display, fed well-formed fragments (SpecUdp) *)
(* or raw datagrams (SpecRaw); the frame channel is drained by its receiver *)

InitUdp == UdpInit("frag") /\ SigInit /\ AppInit /\ InputInit /\ SendInit /\ ExtInit
InitRaw == UdpInit("raw") /\ SigInit /\ AppInit /\ InputInit /\ SendInit /\ ExtInit

NextUdp == UdpRecvAny \/ UdpSendResume \/ Tick \/ FrameRxTake

SpecUdp == InitUdp /\ [][NextUdp]_vars
SpecRaw == InitRaw /\ [][NextUdp]_vars

---------------------------------------------------------------------------
(* The sender: send_frame called on the clones of one VideoSender *)

InitSend == UdpInit("send") /\ SigInit /\ AppInit /\ InputInit /\ SendInit /\ ExtInit
InitSendBig == UdpInit("sendbig") /\ SigInit /\ AppInit /\ InputInit /\ SendInit /\ ExtInit

NextSend ==
    \/ \E t \in Senders(mode), f \in SendFrames(mode) : SendFrameBegin(t, f)
    \/ \E t \in Senders(mode), ok \in BOOLEAN : SendFragment(t, ok)

SpecSend == InitSend /\ [][NextSend]_vars
SpecSendBig == InitSendBig /\ [][NextSend]_vars

---------------------------------------------------------------------------
(* The signaling server of one display and its clients; the event channel *)
(* is drained by its receiver                                              *)

InitSig == UdpInit("sig") /\ SigInit /\ AppInit /\ InputInit /\ SendInit /\ ExtInit

NextSig ==
    \/ \E c \in Conns(mode) : TcpConnect(c)
    \/ \E c \in Conns(mode) : ListenerAccept(c)
    \/ \E c \in Conns(mode) : HandshakeOk(c)
    \/ \E c \in Conns(mode) : HandshakeFail(c)
    \/ \E c \in Conns(mode) : ConnRecvAny(c)
    \/ \E c \in Conns(mode) : ConnReadErr(c)
    \/ \E c \in Conns(mode) : ConnBadJson(c)
    \/ \E c \in Conns(mode) : ConnSendResume(c)
    \/ \E d \in Displays(mode) : EventRxTake(d)

SpecSig == InitSig /\ [][NextSig]_vars

---------------------------------------------------------------------------
(* The signaling servers of two displays sharing one input queue, with the *)
(* forwarders and the decode workers' input events                         *)

InitInput == UdpInit("input") /\ SigInit /\ AppInit /\ InputInit /\ SendInit /\ ExtInit

NextInput ==
    \/ \E c \in Conns(mode) : TcpConnect(c)
    \/ \E c \in Conns(mode) : ListenerAccept(c)
    \/ \E c \in Conns(mode) : HandshakeOk(c)
    \/ \E c \in Conns(mode) : HandshakeFail(c)
    \/ \E c \in Conns(mode) : ConnRecvAny(c)
    \/ \E c \in Conns(mode) : ConnReadErr(c)
    \/ \E c \in Conns(mode) : ConnBadJson(c)
    \/ \E c \in Conns(mode) : ConnSendResume(c)
    \/ \E d \in Displays(mode) : EventRxTake(d)
    \/ InputPoll
    \/ \E c \in Conns(mode) : FwdAcquire(c)
    \/ \E c \in Conns(mode) : FwdRecv(c)
    \/ \E c \in Conns(mode), ok \in BOOLEAN : FwdWrite(c, ok)

SpecInput == InitInput /\ [][NextInput]_vars

---------------------------------------------------------------------------
(* One display: ingress task, signaling server, run_display and its worker *)

InitApp == UdpInit("app") /\ SigInit /\ AppInit /\ InputInit /\ SendInit /\ ExtInit

NextApp ==
    \/ UdpRecvAny
    \/ UdpSendResume
    \/ \E c \in Conns(mode) : TcpConnect(c)
    \/ \E c \in Conns(mode) : ListenerAccept(c)
    \/ \E c \in Conns(mode) : HandshakeOk(c)
    \/ \E c \in Conns(mode) : HandshakeFail(c)
    \/ \E c \in Conns(mode) : ConnRecvAny(c)
    \/ \E c \in Conns(mode) : ConnReadErr(c)
    \/ \E c \in Conns(mode) : ConnBadJson(c)
    \/ \E c \in Conns(mode) : ConnSendResume(c)
    \/ OrchLoopTop
    \/ OrchCooldownDone
    \/ OrchWaitHello
    \/ \E ok \in BOOLEAN : OrchDecoderInit(ok)
    \/ OrchStreamFrame
    \/ OrchForwardResume
    \/ OrchStreamEvent
    \/ OrchJoin
    \/ \E n \in 0..1 : WorkerStep(n)
    \/ WorkerExit

SpecApp == InitApp /\ [][NextApp]_vars

\* The worker runs on a thread of its own and every push_frame call returns;
\* the orchestrator's task is polled when decode_handle completes
SpecAppLive ==
    /\ InitApp /\ [][NextApp]_vars
    /\ WF_vars(\E n \in 0..1 : WorkerStep(n))
    /\ WF_vars(WorkerExit)
    /\ WF_vars(OrchJoin)

\* Two clients on the signaling port of display 0 and the run_display of that
\* display; no video is sent
InitTwo == UdpInit("two") /\ SigInit /\ AppInit /\ InputInit /\ SendInit /\ ExtInit

NextTwo ==
    \/ \E c \in Conns(mode) : TcpConnect(c)
    \/ \E c \in Conns(mode) : ListenerAccept(c)
    \/ \E c \in Conns(mode) : HandshakeOk(c)
    \/ \E c \in Conns(mode) : HandshakeFail(c)
    \/ \E c \in Conns(mode) : ConnRecvAny(c)
    \/ \E c \in Conns(mode) : ConnReadErr(c)
    \/ \E c \in Conns(mode) : ConnBadJson(c)
    \/ \E c \in Conns(mode) : ConnSendResume(c)
    \/ OrchLoopTop
    \/ OrchCooldownDone
    \/ OrchWaitHello
    \/ \E ok \in BOOLEAN : OrchDecoderInit(ok)
    \/ OrchStreamEvent
    \/ OrchJoin
    \/ WorkerExit

SpecTwo == InitTwo /\ [][NextTwo]_vars

\* The same processes in an environment that shuts down: the transport tasks
\* may be cancelled and the worker may panic
InitExit == UdpInit("exit") /\ SigInit /\ AppInit /\ InputInit /\ SendInit /\ ExtInit

NextExit ==
    \/ UdpRecvAny
    \/ UdpSendResume
    \/ \E c \in Conns(mode) : TcpConnect(c)
    \/ \E c \in Conns(mode) : ListenerAccept(c)
    \/ \E c \in Conns(mode) : HandshakeOk(c)
    \/ \E c \in Conns(mode) : HandshakeFail(c)
    \/ \E c \in Conns(mode) : ConnRecvAny(c)
    \/ \E c \in Conns(mode) : ConnReadErr(c)
    \/ \E c \in Conns(mode) : ConnBadJson(c)
    \/ \E c \in Conns(mode) : ConnSendResume(c)
    \/ OrchLoopTop
    \/ OrchCooldownDone
    \/ OrchWaitHello
    \/ OrchWaitHelloClosed
    \/ \E ok \in BOOLEAN : OrchDecoderInit(ok)
    \/ OrchStreamFrame
    \/ OrchForwardResume
    \/ OrchStreamEvent
    \/ OrchStreamClosed
    \/ OrchJoin
    \/ \E n \in 0..1 : WorkerStep(n)
    \/ WorkerExit
    \/ WorkerPanic
    \/ IngressAbort
    \/ \E d \in Displays(mode) : ServerAbort(d)

SpecExit == InitExit /\ [][NextExit]_vars

\* The same processes, with fragments of two frames arriving in any order and
\* one session
InitPipe == UdpInit("pipe") /\ SigInit /\ AppInit /\ InputInit /\ SendInit /\ ExtInit

SpecPipe == InitPipe /\ [][NextApp]_vars

---------------------------------------------------------------------------
(* History of one frame_seq *)

\* The pushes that carried frame_seq s, in order
LogOf(s) == SelectSeq(udpLog, LAMBDA e : e.packet.frame_seq = s)

SeqsPushed == {udpLog[i].packet.frame_seq : i \in DOMAIN udpLog}

\* Every push of L carries the header of the first (frag_count, pts_ms, keyframe),
\* an index below frag_count, and falls within the timeout of the first push
SameFrame(L) ==
    \A i \in DOMAIN L :
        /\ L[i].packet.frag_count = L[1].packet.frag_count
        /\ L[i].packet.pts_ms = L[1].packet.pts_ms
        /\ L[i].packet.is_keyframe = L[1].packet.is_keyframe
        /\ L[i].packet.frag_index < L[1].packet.frag_count
        /\ L[i].at - L[1].at <= REASSEMBLY_TIMEOUT

NoDuplicate(L) ==
    \A i, j \in DOMAIN L : i # j => L[i].packet.frag_index # L[j].packet.frag_index

IndexesOf(L) == {L[i].packet.frag_index : i \in DOMAIN L}

\* The payload L carries for fragment k (the first one pushed)
PayloadOf(L, k) ==
    L[CHOOSE i \in DOMAIN L :
        /\ L[i].packet.frag_index = k
        /\ \A j \in 1..(i - 1) : L[j].packet.frag_index # k].packet.payload

RECURSIVE PayloadsFrom(_, _, _)
PayloadsFrom(L, k, n) ==
    IF k >= n THEN <<>> ELSE PayloadOf(L, k) \o PayloadsFrom(L, k + 1, n)

\* The frame the fragments of L stand for
FrameOf(L) ==
    [data         |-> PayloadsFrom(L, 0, L[1].packet.frag_count),
     timestamp_us |-> L[1].packet.pts_ms * 1000,
     is_keyframe  |-> L[1].packet.is_keyframe,
     codec        |-> "h264"]

Emitted(L) == {i \in DOMAIN L : L[i].out # None}

---------------------------------------------------------------------------
(* C1: when the n fragments of a frame_seq (each carrying frag_count n) are *)
(* pushed in any order inside the 2 s window, the push supplying the last   *)
(* missing fragment returns the frame -- data = the payloads concatenated   *)
(* in index order, timestamp_us = pts_ms * 1000, the keyframe flag, codec   *)
(* h264 -- and every other push returns nothing.                            *)
C1_ReassemblesAnyOrder ==
    \A s \in SeqsPushed :
        LET L == LogOf(s) IN
        (SameFrame(L) /\ NoDuplicate(L)) =>
            \A i \in DOMAIN L :
                L[i].out = IF i = L[1].packet.frag_count THEN Some(FrameOf(L)) ELSE None

\* a three-fragment frame delivered as C, A, B has just been emitted
C1_Witness ==
    \E s \in SeqsPushed :
        LET L == LogOf(s) IN
        /\ SameFrame(L) /\ NoDuplicate(L)
        /\ Len(L) = 3 /\ L[1].packet.frag_count = 3
        /\ L[1].packet.frag_index = 2 /\ L[2].packet.frag_index = 0
        /\ L[3].out # None

(* C2: extra copies of fragments of one frame_seq, wherever they arrive, do  *)
(* not change what is emitted: at most one frame per frame_seq, the same one *)
C2_DuplicatesIdempotent ==
    \A s \in SeqsPushed :
        LET L == LogOf(s) IN
        SameFrame(L) =>
            /\ Cardinality(Emitted(L)) <= 1
            /\ \A i \in Emitted(L) : L[i].out = Some(FrameOf(L))

(* C3: a frame_seq with a fragment index that never arrived emits no frame,  *)
(* and after any push no slot older than the timeout is left in the map      *)
C3_LossDropsFrame ==
    /\ \A s \in SeqsPushed :
           LET L == LogOf(s) IN
           (/\ \A i \in DOMAIN L : /\ L[i].packet.frag_count = L[1].packet.frag_count
                                   /\ L[i].packet.frag_index < L[1].packet.frag_count
            /\ IndexesOf(L) # 0..(L[1].packet.frag_count - 1))
           => Emitted(L) = {}
    /\ udpLog # <<>> =>
           \A s \in DOMAIN frames :
               udpLog[Len(udpLog)].at - frames[s].first_seen <= REASSEMBLY_TIMEOUT

\* frame_seq 0 lost a fragment, and a packet of frame_seq 1 that came more than
\* 2 s later evicted its slot
C3_Witness ==
    /\ Len(udpLog) = 2
    /\ udpLog[1].packet.frame_seq = 0 /\ udpLog[1].out = None
    /\ udpLog[2].packet.frame_seq = 1
    /\ udpLog[2].at - udpLog[1].at > REASSEMBLY_TIMEOUT
    /\ udpLog[2].evicted = {0}
    /\ 0 \notin DOMAIN frames

(* C4: once a frame_seq has completed, no slot for it exists again and no    *)
(* second frame is emitted for it, whatever packets carrying it arrive later *)
C4_CompletedNeverReappears ==
    \A s \in SeqsPushed :
        Emitted(LogOf(s)) # {} =>
            /\ s \notin DOMAIN frames
            /\ Cardinality(Emitted(LogOf(s))) = 1

(* C5: parse_packet rejects exactly the datagrams shorter than 20 bytes, not *)
(* starting with "DLNK", or with frag_count 0 (a 20-byte datagram with an    *)
(* empty payload is accepted), and on a rejected datagram the ingress task   *)
(* leaves the reassembler and the frame channel as they were                 *)
Malformed(d) ==
    \/ Len(d) < 20
    \/ SubSeq(d, 1, 4) # <<68, 76, 78, 75>>
    \/ (d[11] = 0 /\ d[12] = 0)

C5_RejectsMalformed ==
    /\ [](/\ (parse_packet(lastDgram) = None) <=> Malformed(lastDgram)
          /\ (Len(lastDgram) = 20 /\ ~Malformed(lastDgram))
                => parse_packet(lastDgram)[1].payload = <<>>)
    /\ [][\A d \in Datagrams(mode) :
              (UdpRecv(d) /\ Malformed(d)) =>
                  UNCHANGED <<frames, frameCh, udpPending, udpPc, counter, udpLog>>]_vars

\* a datagram with a damaged magic was the last one taken while a stale slot was
\* waiting in the reassembler, and a header-only datagram had been accepted
C5_Witness ==
    /\ Len(lastDgram) >= 20 /\ Malformed(lastDgram)
    /\ \E s \in DOMAIN frames : now - frames[s].first_seen > REASSEMBLY_TIMEOUT
    /\ \E i \in DOMAIN udpLog : udpLog[i].packet.payload = <<>> /\ udpLog[i].out # None

---------------------------------------------------------------------------
(* History of the signaling events and of the frame pipeline *)

\* The events of type t sent on the event channel, as positions of evHist
EventsOfType(t) == {i \in DOMAIN evHist : evHist[i].ev.type = t}

\* The frames the reassembler completed, in completion order, tagged as
\* run_udp_receiver tags them
RECURSIVE CompletedFrom(_)
CompletedFrom(i) ==
    IF i > Len(udpLog) THEN <<>>
    ELSE (IF udpLog[i].out = None THEN <<>>
          ELSE <<[id |-> i, seq |-> udpLog[i].packet.frame_seq, frame |-> udpLog[i].out[1]]>>)
         \o CompletedFrom(i + 1)

Completed == CompletedFrom(1)

PushedFrames == [i \in DOMAIN pushed |-> pushed[i].frame]

\* Every frame that is somewhere between the reassembler and the decoder,
\* the ones nearest to the decoder first
InFlight == PushedFrames \o decodeCh \o inHand \o frameCh \o udpPending

(* C6: a hello whose pairingPin is not the receiver's PIN (a hello without   *)
(* a PIN included) makes the handler write one hello_ack with accepted =     *)
(* false and reason "Invalid pairing PIN" and return: no event is sent for   *)
(* it, no forwarder is started by it, and a handler that returned neither    *)
(* writes nor sends again                                                    *)
C6_WrongPinRefused ==
    /\ [][\A c \in Conns(mode), m \in ClientMsgs(mode), ok \in BOOLEAN :
             (ConnRecv(c, m, ok) /\ m.type = "hello" /\ m.pairing_pin # <<"123456">>) =>
                 /\ wire'[c] = Append(wire[c],
                        [msg |-> [type |-> "hello_ack",
                                  session_id |-> m.session_id \o
                                                 (IF m.session_id = <<>> THEN <<"">> ELSE <<>>),
                                  accepted |-> <<FALSE>>,
                                  reason |-> <<"Invalid pairing PIN">>],
                         ok |-> ok])
                 /\ conn'[c].pc = "closed"
                 /\ evHist' = evHist /\ eventCh' = eventCh
                 /\ conn'[c].forwarder = conn[c].forwarder
                 /\ conn'[c].session_active = conn[c].session_active]_vars
    /\ [][\A c \in Conns(mode) :
             conn[c].pc = "closed" => (conn'[c] = conn[c] /\ wire'[c] = wire[c])]_vars

\* a connection whose only message was a hello without a PIN has been refused
\* and closed, with no event sent for it and no forwarder
C6_Witness ==
    \E c \in DOMAIN conn :
        /\ conn[c].pc = "closed"
        /\ Len(wire[c]) = 1
        /\ wire[c][1].msg.accepted = <<FALSE>>
        /\ wire[c][1].msg.session_id = <<"">>
        /\ conn[c].forwarder = "none"
        /\ \A i \in DOMAIN evHist : evHist[i].conn # c

(* C7: on the event channel, every SessionStopped is preceded by a           *)
(* SessionStarted with the same session_id                                   *)
C7_StoppedAfterStarted ==
    \A i \in EventsOfType("SessionStopped") :
        \E j \in EventsOfType("SessionStarted") :
            j < i /\ evHist[j].ev.session_id = evHist[i].ev.session_id

(* C8: in Streaming, a ConfigUpdated with the resolution of the active       *)
(* config leaves the loop running with the same worker and decoder; one with *)
(* another resolution ends the loop with reason config_updated and stashes   *)
(* the new config; from there until the next decoder initialisation no event *)
(* is taken and no cooldown is slept, the initialisation happens after the   *)
(* old worker has finished and uses the new config; and the server handles   *)
(* a config_update by sending a ConfigUpdated at most, keeping the           *)
(* connection, a ClientDisconnected being sent for a read error only         *)
C8_HotReload ==
    /\ [][(OrchStreamEvent /\ Head(eventCh[0]).type = "ConfigUpdated") =>
             IF Head(eventCh[0]).config[1].resolution = config[1].resolution
             THEN /\ oPc' = "streaming" /\ worker' = "running" /\ decodeTx' = "open"
                  /\ decoderGen' = decoderGen /\ config' = config
                  /\ pending_config' = <<>> /\ initLog' = initLog
             ELSE /\ oPc' = "join" /\ exitReason' = "config_updated"
                  /\ decodeTx' = "dropped"
                  /\ pending_config' = Head(eventCh[0]).config]_vars
    /\ [](hot.active =>
             /\ oPc \in {"join", "top", "decoder_init"}
             /\ exitReason = "config_updated"
             /\ Len(eventsTaken) = hot.taken
             /\ cooldowns = hot.cooldowns
             /\ oPc \in {"join", "top"} => pending_config = hot.config
             /\ oPc = "decoder_init" => (config = hot.config /\ worker = "none"))
    /\ [](\A i \in DOMAIN initLog :
             initLog[i].hot =>
                 /\ eventsTaken[initLog[i].taken].type = "ConfigUpdated"
                 /\ eventsTaken[initLog[i].taken].config = <<initLog[i].config>>
                 /\ initLog[i].worker = "none"
                 /\ i > 1
                 /\ initLog[i].config.resolution # initLog[i - 1].config.resolution)
    /\ [][\A c \in Conns(mode), m \in ClientMsgs(mode) :
             (ConnRecv(c, m, TRUE) /\ m.type = "config_update") =>
                 /\ conn'[c].pc \in {"reading", "sending"}
                 /\ wire' = wire
                 /\ \/ evHist' = evHist
                    \/ evHist' = Append(evHist,
                                        [conn |-> c, ev |-> ConfigUpdated(m.config[1])])]_vars
    /\ [][(evHist' # evHist /\ evHist'[Len(evHist')].ev.type = "ClientDisconnected") =>
             \E c \in Conns(mode) :
                 \/ ConnReadErr(c)
                 \/ ConnSendResume(c) /\ conn[c].pending = <<ClientDisconnected>>]_vars

\* after an update that kept the resolution (taken while Streaming, the first
\* decoder kept), an update to 2560x1440 has restarted the decoder: the second
\* initialisation was a hot one and succeeded, and the first decoder had been
\* given a frame
C8_Witness ==
    /\ Len(initLog) = 2
    /\ initLog[2].hot /\ initLog[2].ok
    /\ initLog[2].config.resolution = [width |-> 2560, height |-> 1440]
    /\ oPc = "streaming"
    /\ Len(eventsTaken) = 3
    /\ eventsTaken[2].type = "ConfigUpdated"
    /\ eventsTaken[2].config[1].resolution = [width |-> 1920, height |-> 1080]
    /\ \E i \in DOMAIN pushed : pushed[i].gen = 1

ArrivedInFrameSeqOrder ==
    \A i, j \in DOMAIN udpLog :
        i < j => udpLog[i].packet.frame_seq <= udpLog[j].packet.frame_seq

C10_CompletionOrder ==
    /\ [](/\ InFlight = Completed
          /\ Len(frameCh) <= FrameChanCap
          /\ Len(decodeCh) <= DecodeChanCap
          /\ \A i, j \in DOMAIN pushed : i < j => pushed[i].gen <= pushed[j].gen)
    /\ [][udpPc = "sending" => udpLog' = udpLog]_vars
    /\ [][OrchStreamFrame =>
             PushedFrames' \o decodeCh' \o inHand' = PushedFrames \o decodeCh \o <<Head(frameCh)>>]_vars
    /\ [][pushed' # pushed =>
             /\ pushed' = Append(pushed, [frame |-> Head(decodeCh), gen |-> decoderGen])
             /\ decodeCh' = Tail(decodeCh)]_vars

\* the first completed frame has been pushed, the frame channel is full and
\* the ingress task is waiting for room with the last completed frame
C10_Witness ==
    /\ Len(pushed) >= 1
    /\ pushed[1].frame.id = Completed[1].id
    /\ Len(frameCh) = FrameChanCap
    /\ udpPc = "sending"
    /\ udpPending = <<Completed[Len(Completed)]>>

---------------------------------------------------------------------------
(* History of the send_frame calls *)

\* The calls that took a frame_seq, in the order in which they took it
SeqCalls == SelectSeq(sndCalls, LAMBDA call : call.frame_seq # <<>>)

(* C12: a send_frame call that returned emitted ceil(N / 1384) datagrams and *)
(* at least one, for N = 0 too; the slices it sent follow one another from   *)
(* byte 0 to byte N; no datagram carries more than 1384 payload bytes or     *)
(* more than 1404 bytes                                                      *)
C12_FragmentsCoverFrame ==
    /\ \A id \in DOMAIN sndCalls :
           sndCalls[id].status = "returned" =>
               /\ sndCalls[id].i = (sndCalls[id].len + 1383) \div 1384
               /\ sndCalls[id].i >= 1
               /\ sndCalls[id].covered = sndCalls[id].len
    /\ sndLast # <<>> =>
           /\ sndLast[1].length <= 1384
           /\ Len(sndLast[1].header) + sndLast[1].length <= 1404

(* C13: every datagram of a call carries, as frag_count, the number of       *)
(* datagrams the call emits, and as frag_index its position among them,      *)
(* counted from 0                                                            *)
C13_FragCountExact ==
    sndLast # <<>> =>
        /\ FromBE16(sndLast[1].header, 10) = sndCalls[sndLast[1].call].num_fragments
        /\ FromBE16(sndLast[1].header, 8) = sndLast[1].k - 1

---------------------------------------------------------------------------
(* History of the input path *)

\* The events the forwarders took, and the messages they wrote, in order
Recvs == SelectSeq(fwdLog, LAMBDA e : e.op = "recv")
Writes == SelectSeq(fwdLog, LAMBDA e : e.op = "write")

WritesOn(c) == SelectSeq(Writes, LAMBDA e : e.conn = c)
InputEventsOn(c) == SelectSeq(wire[c], LAMBDA w : w.msg.type = "input_event")

\* The forwarders that hold the guard of input_rx
Holders == {c \in DOMAIN fwd : fwd[c].pc \in {"holding", "writing"}}

\* A forwarder took the queue and the handler of its connection has returned
SessionEnded(c) == fwd[c].pc # "none" /\ conn[c].pc = "closed"

(* C11: the input_event messages are written in the order in which their     *)
(* events were offered to, and so accepted into, the input queue; no event is *)
(* written twice; an event offered while the queue was full is never written; *)
(* what each peer is sent is what the forwarders wrote                        *)
C11_InputOrder ==
    /\ \A i, j \in DOMAIN Writes : i < j => Writes[i].ev < Writes[j].ev
    /\ \A i \in DOMAIN Writes : inputLog[Writes[i].ev].accepted
    /\ \A c \in DOMAIN wire :
           /\ Len(InputEventsOn(c)) = Len(WritesOn(c))
           /\ \A i \in DOMAIN WritesOn(c) :
                  /\ InputEventsOn(c)[i].msg = input_event(WritesOn(c)[i].ev)
                  /\ InputEventsOn(c)[i].ok = WritesOn(c)[i].ok

\* two events were accepted and written in turn, a third was offered to the
\* full queue
C11_Witness ==
    /\ Len(inputLog) = 3
    /\ inputLog[1].accepted /\ inputLog[2].accepted /\ ~inputLog[3].accepted
    /\ Len(Writes) = 2
    /\ Writes[1].ok /\ Writes[2].ok

(* C18: at most one forwarder holds the guard of input_rx, it is the one the  *)
(* mutex names, only it takes events, and no event is taken twice             *)
C18_OneForwarder ==
    /\ [](/\ Cardinality(Holders) <= 1
          /\ \A c \in Holders : inputLock = c
          /\ \A i, j \in DOMAIN Recvs : i # j => Recvs[i].ev # Recvs[j].ev)
    /\ [][\A c \in DOMAIN fwd :
              (fwd[c].pc = "holding" /\ fwd'[c].pc = "writing") => inputLock = c]_vars

\* the forwarder of one connection has taken an event while the forwarder of
\* another connection waits for the mutex
C18_Witness ==
    \E c, w \in DOMAIN fwd :
        /\ c # w
        /\ fwd[c].pc = "writing"
        /\ conn[w].forwarder = "spawned"
        /\ fwd[w].pc = "none"

(* C19: no event is taken from the input queue by the forwarder of a          *)
(* connection to display 1 or higher                                          *)
C19_OnlyDisplayZeroDrains ==
    \A i \in DOMAIN Recvs : DisplayOf(mode, Recvs[i].conn) = 0

---------------------------------------------------------------------------
(* History of the decoder initialisations *)

\* The initialisation whose result is the last one logged failed, and no event
\* has been taken since
InitJustFailed ==
    /\ initLog # <<>>
    /\ ~initLog[Len(initLog)].ok
    /\ Len(eventsTaken) = initLog[Len(initLog)].taken

(* C16: outside the Streaming loop and the wait for the worker there is no    *)
(* worker and no decode sender; every decoder initialisation starts with no   *)
(* worker alive; the loop leaves the wait only once decode_tx is dropped and  *)
(* the worker has finished, and only then reaches the cooldown, the wait for  *)
(* a hello or the next initialisation                                         *)
C16_OneWorker ==
    /\ [](/\ oPc \in {"top", "cooldown", "wait_hello", "decoder_init"}
              => (worker = "none" /\ decodeTx = "none")
          /\ worker # "none" => oPc \in {"streaming", "forward", "join"}
          /\ \A i \in DOMAIN initLog : initLog[i].worker = "none")
    /\ [][(oPc = "join" /\ oPc' # "join")
              => (worker = "finished" /\ decodeTx = "dropped" /\ decodeCh = <<>>
                  /\ worker' = "none")]_vars
    /\ [][(oPc \in {"streaming", "forward"} /\ oPc' \notin {"streaming", "forward"})
              => (oPc' = "join" /\ decodeTx' = "dropped")]_vars

\* a second decoder runs: its initialisation found the first worker gone, after
\* the first worker had pushed a frame
C16_Witness ==
    /\ Len(initLog) = 2
    /\ initLog[1].ok /\ initLog[2].ok
    /\ worker = "running"
    /\ decoderGen = 2
    /\ pushed # <<>>

(* C17: a failed decoder initialisation, after a hello or for a hot reload,   *)
(* spawns no worker, takes no frame, leaves the pending config empty and goes *)
(* back to the top of the loop; the next initialisation comes only after a    *)
(* SessionStarted taken in the wait for a hello                               *)
C17_InitFailure ==
    /\ [][(oPc = "decoder_init" /\ initLog' # initLog /\ ~initLog'[Len(initLog')].ok)
              => /\ worker = "none" /\ worker' = "none"
                 /\ decodeTx' = "none"
                 /\ decoderGen' = decoderGen
                 /\ frameCh' = frameCh /\ decodeCh' = decodeCh /\ pushed' = pushed
                 /\ pending_config' = None
                 /\ oPc' = "top"]_vars
    /\ [](InitJustFailed
              => /\ oPc \in {"top", "cooldown", "wait_hello"}
                 /\ pending_config = None
                 /\ worker = "none")
    /\ [](\A i \in DOMAIN initLog :
              (i > 1 /\ ~initLog[i - 1].ok)
                  => /\ ~initLog[i].hot
                     /\ initLog[i].taken > initLog[i - 1].taken
                     /\ eventsTaken[initLog[i].taken].type = "SessionStarted")

\* the initialisation for a hot reload failed and the loop waits for a hello
C17_Witness ==
    /\ InitJustFailed
    /\ initLog[Len(initLog)].hot
    /\ oPc = "wait_hello"
    /\ frameCh # <<>>

---------------------------------------------------------------------------
(* C15: run_display ends only on closed ingress channels: from the wait for a *)
(* hello when the event channel is closed and empty, or after a Streaming     *)
(* loop that ended with channels_closed, which takes both channels closed and *)
(* empty; after every other exit of the Streaming loop (session_stopped,      *)
(* client_disconnected, config_updated, decode_thread_gone) the loop goes     *)
(* back to its top once the worker is gone                                    *)
C15_EndsOnlyOnClosedChannels ==
    /\ [][(oPc' = "exited" /\ oPc # "exited")
              => \/ /\ oPc = "join"
                    /\ exitReason = "channels_closed"
                    /\ FrameClosed /\ EventClosed(0)
                 \/ /\ oPc = "wait_hello"
                    /\ eventCh[0] = <<>> /\ EventClosed(0)]_vars
    /\ [][(oPc = "join" /\ oPc' # "join" /\ exitReason # "channels_closed")
              => (oPc' = "top"
                  /\ exitReason \in {"session_stopped", "client_disconnected",
                                     "config_updated", "decode_thread_gone"})]_vars
    /\ [][(exitReason' = "channels_closed" /\ exitReason # "channels_closed")
              => (frameCh = <<>> /\ FrameClosed /\ eventCh[0] = <<>> /\ EventClosed(0))]_vars
    /\ [](oPc = "exited" => (rxDropped /\ EventClosed(0)))

\* run_display has returned for channels_closed in its second session, the
\* first session having ended otherwise and looped back
C15_Witness ==
    /\ oPc = "exited"
    /\ exitReason = "channels_closed"
    /\ session_count = 2
    /\ Len(initLog) = 2

---------------------------------------------------------------------------
(* C21: the input queue never holds more events than its capacity; an offer   *)
(* is decided in the step that makes it, the producer never waits; an event   *)
(* offered to a full queue is discarded and leaves the queue as it was, and   *)
(* an event offered to a queue with room is put at its tail                   *)
C21_InputQueueBounded ==
    /\ [](Len(inputQ) <= InputChanCap)
    /\ [][inputLog' # inputLog
              => /\ Len(inputLog') = Len(inputLog) + 1
                 /\ IF Len(inputQ) >= InputChanCap
                    THEN /\ inputQ' = inputQ
                         /\ ~inputLog'[Len(inputLog')].accepted
                    ELSE /\ inputQ' = Append(inputQ, inputLog'[Len(inputLog')].ev)
                         /\ inputLog'[Len(inputLog')].accepted]_vars

\* the queue is full of the first events offered, in their order, and a later
\* event was discarded
C21_Witness ==
    /\ Len(inputQ) = InputChanCap
    /\ \A i \in DOMAIN inputQ : inputQ[i] = i
    /\ Len(inputLog) = InputChanCap + 1
    /\ ~inputLog[Len(inputLog)].accepted

---------------------------------------------------------------------------
(* History of the accepted hellos *)

\* The accepting hello_acks written to c with success
AcksWritten(c) ==
    {i \in DOMAIN wire[c] : /\ wire[c][i].msg.type = "hello_ack"
                            /\ wire[c][i].msg.accepted = Some(TRUE)
                            /\ wire[c][i].ok}

\* The SessionStarted events of c: queued so far, and the one its handler is
\* waiting to queue
StartedQueued(c) ==
    {i \in DOMAIN evHist : evHist[i].conn = c /\ evHist[i].ev.type = "SessionStarted"}
StartedPending(c) ==
    IF conn[c].pending # None /\ conn[c].pending[1].type = "SessionStarted" THEN 1 ELSE 0

\* The event the handler of c emits in a step: the one queued, or the one it
\* starts to wait with
EmittedBy(c) ==
    IF evHist' # evHist THEN Some(evHist'[Len(evHist')].ev)
    ELSE IF conn[c].pc = "reading" /\ conn'[c].pc = "sending" THEN conn'[c].pending
    ELSE None

(* C30: the step that writes an accepting hello_ack to c answers a hello with *)
(* the right PIN: the ack carries the hello's session_id; if the write failed *)
(* the handler returns and emits nothing; if it succeeded the handler emits   *)
(* one SessionStarted with the hello's session_id, device_name and config,    *)
(* defaults for absent fields; no other step emits a SessionStarted; a        *)
(* connection spawns at most one forwarder                                    *)
C30_AcceptedHello ==
    /\ [][\A c \in DOMAIN wire :
            (wire'[c] # wire[c]
             /\ wire'[c][Len(wire'[c])].msg.accepted = Some(TRUE))
              => \E m \in ClientMsgs(mode) :
                    /\ m.type = "hello"
                    /\ m.pairing_pin = Some(expected_pin)
                    /\ wire'[c] = Append(wire[c],
                          [msg |-> hello_ack(unwrap_or_default(m.session_id), TRUE, None),
                           ok  |-> wire'[c][Len(wire'[c])].ok])
                    /\ IF wire'[c][Len(wire'[c])].ok
                       THEN EmittedBy(c) =
                              Some(SessionStarted(
                                     unwrap_or_default(m.session_id),
                                     IF m.device_name = None THEN "addr" ELSE m.device_name[1],
                                     IF m.config = None THEN StreamConfig_default
                                                        ELSE m.config[1],
                                     c))
                       ELSE /\ EmittedBy(c) = None
                            /\ conn'[c].pc = "closed"]_vars
    /\ [](\A c \in DOMAIN wire :
             /\ Cardinality(AcksWritten(c)) = Cardinality(StartedQueued(c)) + StartedPending(c)
             /\ conn[c].forwarders <= 1
             /\ conn[c].forwarders = 1 <=> conn[c].forwarder = "spawned")

\* one connection has had two hellos accepted, both SessionStarted were queued,
\* and it has one forwarder
C30_Witness ==
    \E c \in DOMAIN wire :
        /\ Cardinality(AcksWritten(c)) = 2
        /\ Cardinality(StartedQueued(c)) = 2
        /\ conn[c].forwarders = 1

---------------------------------------------------------------------------
(* C29: what a frame needs to come back whole from the receiver: every        *)
(* datagram send_frame emits is accepted by parse_packet, as the fragment at  *)
(* its position among as many fragments as the call emits, with the frame's   *)
(* frame_seq, keyframe flag and pts_ms = (timestamp_us / 1000) mod 2^32, so   *)
(* that FrameReassembler::push completes the frame with the last of them      *)
C29_RoundTrip ==
    sndLast # <<>> =>
        LET call   == sndCalls[sndLast[1].call]
            parsed == parse_packet(sndLast[1].header)
        IN  /\ parsed # None
            /\ parsed[1].frame_seq = call.frame_seq[1]
            /\ parsed[1].frag_index = sndLast[1].k - 1
            /\ parsed[1].frag_count = call.num_fragments
            /\ parsed[1].pts_ms = call.pts_ms
            /\ parsed[1].is_keyframe = (call.flags = 1)
            /\ FrameReassembler_push(<<>>, 0, parsed[1]).out # None
                   <=> call.num_fragments = 1

---------------------------------------------------------------------------
(* C27: for every display index k of type u8, video_port(k) = 7878 + 2k and   *)
(* signaling_port(k) = 7879 + 2k without overflowing 16 bits, the receiver    *)
(* crate and the sender crate compute the same ports, and two different       *)
(* indices never share a video (UDP) port or a signaling (TCP) port           *)
C27_Ports ==
    (fnIn # None /\ fnIn[1].fn = "ports" /\ fnOut # None) =>
        LET j == fnIn[1].j
            k == fnIn[1].k
            o == fnOut[1]
        IN  /\ o.rx_video[k] = [value |-> 7878 + 2 * k, overflow |-> FALSE]
            /\ o.rx_sig[k] = [value |-> 7879 + 2 * k, overflow |-> FALSE]
            /\ o.tx_video[k] = o.rx_video[k]
            /\ o.tx_sig[k] = o.rx_sig[k]
            /\ j # k => /\ o.rx_video[j].value # o.rx_video[k].value
                        /\ o.rx_sig[j].value # o.rx_sig[k].value
                        /\ o.tx_video[j].value # o.tx_video[k].value
                        /\ o.tx_sig[j].value # o.tx_sig[k].value

C27_Witness ==
    /\ fnIn # None /\ fnIn[1].fn = "ports" /\ fnOut # None
    /\ fnIn[1].j = 127 /\ fnIn[1].k = 255
    /\ fnOut[1].rx_video[255].value = 8388
    /\ fnOut[1].tx_sig[255].value = 8389

---------------------------------------------------------------------------
(* C28: StreamConfig deserialises to the same value from the JSON object that *)
(* spells its fields in camelCase (targetFPS, maxBitrateBps, lowLatencyMode)  *)
(* and from the object that spells them in snake_case with the same values:   *)
(* the members given are taken, the missing ones come from the default        *)
C28_CamelEqualsSnake ==
    (fnIn # None /\ fnIn[1].fn = "config" /\ fnOut # None) =>
        LET v == fnIn[1]
            o == fnOut[1]
            Given(opt, dflt) == IF opt = None THEN dflt ELSE opt[1]
        IN  /\ o.camel = o.snake
            /\ o.camel.ok <=> v.codec # Some("H264")
            /\ o.camel.ok =>
                 /\ o.camel.value.target_fps = Given(v.target_fps, 30)
                 /\ o.camel.value.max_bitrate_bps = Given(v.max_bitrate_bps, 8000000)
                 /\ o.camel.value.low_latency_mode = Given(v.low_latency_mode, TRUE)
                 /\ o.camel.value.resolution = Given(v.resolution, Resolution_FHD)
                 /\ o.camel.value.codec = (IF v.codec = Some("h265") THEN "H265" ELSE "H264")

C28_Witness ==
    /\ fnIn # None /\ fnIn[1].fn = "config" /\ fnOut # None
    /\ fnIn[1].target_fps = Some(60)
    /\ fnIn[1].max_bitrate_bps = Some(12000000)
    /\ fnIn[1].low_latency_mode = Some(FALSE)
    /\ fnOut[1].camel.ok
    /\ fnOut[1].camel.value.target_fps = 60
    /\ fnOut[1].camel.value.max_bitrate_bps = 12000000
    /\ ~fnOut[1].camel.value.low_latency_mode
    /\ fnOut[1].snake = fnOut[1].camel

---------------------------------------------------------------------------
(* C23: every reader of signaling frames, the receiver's per-connection       *)
(* reader as well as the sender's read_msg, rejects a frame whose 4-byte      *)
(* big-endian length prefix exceeds 1 048 576 and neither reads nor buffers   *)
(* its body                                                                   *)
C23_OversizeRejected ==
    (/\ fnIn # None /\ fnIn[1].fn = "length" /\ fnOut # None
     /\ FromBE32(fnIn[1].len_bytes, 0) > 1048576) =>
        /\ fnOut[1].sender = [rejected |-> TRUE, body_len |-> 0]
        /\ fnOut[1].receiver = [rejected |-> TRUE, body_len |-> 0]

\* the sender's half of C23, which holds
C23_SenderRejects ==
    (fnIn # None /\ fnIn[1].fn = "length" /\ fnOut # None) =>
        /\ fnOut[1].sender.rejected <=> FromBE32(fnIn[1].len_bytes, 0) > 1048576
        /\ fnOut[1].sender.rejected => fnOut[1].sender.body_len = 0

---------------------------------------------------------------------------
(* History of the sender's SignalingClient *)

IsHelloAck(item) == item.ok /\ item.msg.msg_type = "hello_ack"
\* every result of read_msg before the last one was a message of another type
OthersBeforeLast(reads) ==
    \A i \in 1..(Len(reads) - 1) : reads[i].ok /\ reads[i].msg.msg_type # "hello_ack"

HasEvent(item) == EventToPublish(item) # None
\* the events of the input_event messages among reads, in arrival order
EventsOf(reads) ==
    [i \in 1..Len(SelectSeq(reads, HasEvent)) |->
        SelectSeq(reads, HasEvent)[i].msg.input_event[1]]
IsSomeTaken(t) == t # None
\* the events the caller got from input_rx, in order
TakenEvents ==
    [i \in 1..Len(SelectSeq(cliTaken, IsSomeTaken)) |-> SelectSeq(cliTaken, IsSomeTaken)[i][1]]
LastIsStopOrErr(reads) ==
    IF reads = <<>> THEN FALSE
    ELSE \/ ~reads[Len(reads)].ok
         \/ reads[Len(reads)].msg.msg_type = "stop"

---------------------------------------------------------------------------
(* C24: send_hello writes exactly one hello and returns only when the first   *)
(* hello_ack is read, with its accepted flag (false when the field is         *)
(* absent), reason and session_id, or when the transport or the parsing       *)
(* fails; messages of other types read before the hello_ack are discarded and *)
(* do not change the result                                                   *)
C24_SendHello ==
    /\ [](/\ Len(cliWritten) <= 1
          /\ cliPc = "await_ack" =>
               /\ cliWritten = <<"hello">>
               /\ cliResult = None
               /\ \A i \in 1..Len(helloRead) :
                    helloRead[i].ok /\ helloRead[i].msg.msg_type # "hello_ack"
          /\ cliResult = None => cliPc \in {"connected", "await_ack"}
          /\ cliResult # None =>
               IF cliResult[1].ok
               THEN /\ cliWritten = <<"hello">>
                    /\ helloRead # <<>>
                    /\ IsHelloAck(helloRead[Len(helloRead)])
                    /\ OthersBeforeLast(helloRead)
                    /\ LET ack == helloRead[Len(helloRead)].msg
                       IN  cliResult[1].value =
                             [accepted   |-> IF ack.accepted = None THEN FALSE
                                             ELSE ack.accepted[1],
                              reason     |-> ack.reason,
                              session_id |-> ack.session_id]
               ELSE IF helloRead = <<>>
               THEN cliWritten = <<>>
               ELSE /\ cliWritten = <<"hello">>
                    /\ ~helloRead[Len(helloRead)].ok
                    /\ OthersBeforeLast(helloRead))
    /\ [][cliResult # None =>
             /\ cliResult' = cliResult
             /\ cliWritten' = cliWritten
             /\ helloRead' = helloRead]_vars

\* send_hello returned a refusal for an ack without the accepted field, read
\* after two messages of other types
C24_Witness ==
    /\ cliResult # None /\ cliResult[1].ok
    /\ Len(helloRead) = 3
    /\ helloRead[1].msg.msg_type = "stop"
    /\ helloRead[2].msg.msg_type = "input_event"
    /\ helloRead[3].msg.accepted = None
    /\ ~cliResult[1].value.accepted
    /\ cliWritten = <<"hello">>

---------------------------------------------------------------------------
(* C25: after start_recv_loop the background task publishes every received    *)
(* input_event to the bounded channel in arrival order, ignores messages of   *)
(* other types, and returns, which closes the channel, on the first stop      *)
(* message or failed read; after a stop it publishes nothing more             *)
C25_RecvLoop ==
    /\ [](/\ Len(cliInputCh) <= ClientInputCap
          /\ cliRxAlive =>
               EventsOf(recvRead) = TakenEvents \o cliInputCh \o cliHeld
          /\ \A i \in 1..(Len(recvRead) - 1) :
               recvRead[i].ok /\ recvRead[i].msg.msg_type # "stop"
          /\ LastIsStopOrErr(recvRead) => cliPc = "recv_done" /\ ClientInputClosed
          /\ (cliPc = "recv_done" /\ cliRxAlive) => LastIsStopOrErr(recvRead)
          /\ cliHeld # None <=> cliPc = "recv_send"
          /\ \A i \in 1..Len(cliTaken) :
               cliTaken[i] = None =>
                  /\ i = Len(cliTaken)
                  /\ cliPc = "recv_done"
                  /\ TakenEvents = EventsOf(recvRead))
    /\ [][cliPc = "recv_done" =>
             /\ cliPc' = "recv_done"
             /\ recvRead' = recvRead
             /\ cliHeld' = None
             /\ IF cliInputCh = <<>> THEN cliInputCh' = <<>>
                ELSE cliInputCh' \in {cliInputCh, Tail(cliInputCh)}]_vars

\* two events were delivered in order and the stop after them closed the channel
C25_Witness ==
    /\ Len(recvRead) = 3
    /\ recvRead[3].ok /\ recvRead[3].msg.msg_type = "stop"
    /\ cliTaken = <<Some("e2"), Some("e1"), None>>
    /\ cliPc = "recv_done"

\* the task waited for room in the full channel and then published the event
C25_WitnessBlocked ==
    /\ cliPc = "recv"
    /\ Len(recvRead) = 3
    /\ cliTaken = <<Some("e1")>>
    /\ cliInputCh = <<"e2", "e1">>

---------------------------------------------------------------------------
(* C22: with n displays, each display's session loop reads only its own frame *)
(* channel and event channel: a step of one display (its task ending, a frame *)
(* or a signaling event arriving or being taken) leaves the state of every    *)
(* other display unchanged, and run() returns only after all n display tasks  *)
(* have finished                                                              *)
DisplayChanged(d) ==
    \/ dPc'[d] # dPc[d]
    \/ dFrameCh'[d] # dFrameCh[d]
    \/ dEventCh'[d] # dEventCh[d]
    \/ dOpen'[d] # dOpen[d]
    \/ dLog'[d] # dLog[d]

C22_DisplaysIndependent ==
    /\ [][\A i, j \in RunDisplays : (DisplayChanged(i) /\ j # i) => ~DisplayChanged(j)]_vars
    /\ [](\A d \in RunDisplays : \A k \in 1..Len(dLog[d]) : dLog[d][k].display = d)
    /\ [](\A d \in RunDisplays : d < runIdx => dPc[d] = "finished")
    /\ [](RunReturned => \A d \in RunDisplays : dPc[d] = "finished")
    /\ [][\A d \in RunDisplays : dPc[d] = "finished" => dPc'[d] = "finished"]_vars

\* display 1 has finished while display 0 is in a session and took a frame;
\* run() is still waiting for display 0
C22_Witness ==
    /\ dPc[1] = "finished"
    /\ dPc[0] = "streaming"
    /\ Len(dLog[0]) = 2
    /\ dLog[0][2].item = "frame"
    /\ ~RunReturned

\* run() has returned
C22_WitnessReturned ==
    /\ RunReturned
    /\ dLog[1] # <<>>

---------------------------------------------------------------------------
(* History of the transport tasks: the steps in which a task uses its sender *)

\* run_udp_receiver completes frame_tx.send(frame) in this step
FrameSendDone ==
    \/ udpPc = "recv" /\ counter' # counter /\ udpPc' # "sending"
    \/ udpPc = "sending" /\ udpPc' # "sending"

\* the handler of c completes event_tx.send(ev) in this step: after a message
\* that makes it send (an accepted hello whose ack was written, a stop, a
\* failed read), or resuming a send it was waiting in
EventSendDone(c) ==
    \/ /\ conn[c].pc = "sending"
       /\ conn'[c].pc # "sending"
    \/ /\ conn[c].pc = "reading"
       /\ conn'[c].pc # "sending"
       /\ nSig' # nSig
       /\ IF wire'[c] = wire[c] THEN TRUE
          ELSE /\ wire'[c][Len(wire'[c])].ok
               /\ wire'[c][Len(wire'[c])].msg.accepted = Some(TRUE)

---------------------------------------------------------------------------
(* C26: after the holder of a display's frame receiver and event receiver has *)
(* dropped them, the display's transport tasks exit the next time they        *)
(* observe the closed channel: the UDP receiver task at its next              *)
(* frame_tx.send, a connection handler at its next event_tx.send (the         *)
(* listener holds event_tx too, but never sends)                              *)
C26_IngressExitsOnClosedChannel ==
    /\ [][(rxDropped /\ FrameSendDone) => udpPc' = "returned"]_vars
    /\ [][\A c \in Conns(mode) :
            (RxDropped(DisplayOf(mode, c)) /\ EventSendDone(c)) => conn'[c].pc = "closed"]_vars

\* the part of C26 about the UDP receiver task, which holds
C26_UdpTaskExits ==
    [][(rxDropped /\ FrameSendDone) => udpPc' = "returned"]_vars

\* a handler went on after sending on the closed channel, and the listener
\* accepted a connection after the receivers were dropped
C26_HandlerSurvives ==
    /\ rxDropped
    /\ udpPc = "returned"
    /\ \E c \in Conns(mode) : conn[c].pc = "reading" /\ conn[c].forwarder = "spawned"

---------------------------------------------------------------------------
(* History of the reassembler: the slots and the push of a step *)

\* the filled fragment positions of a PartialFrame (one-based)
Filled(pf) == {i \in DOMAIN pf.fragments : pf.fragments[i] # None}

\* the slot of frame_seq t lives on through the step (it is not made in it)
SameSlot(t) ==
    /\ t \in DOMAIN frames
    /\ t \in DOMAIN frames'
    /\ frames'[t].first_seen = frames[t].first_seen

---------------------------------------------------------------------------
(* C39: in every state of a PartialFrame, received equals the number of       *)
(* filled fragment slots and is at most total; total, pts_ms and is_keyframe  *)
(* are those of the packet that made the slot and later packets never change  *)
(* them (nor a stored fragment); a packet whose frag_index >= the slot's      *)
(* total stores nothing, leaves received unchanged and emits no frame         *)
C39_PartialFrameInvariant ==
    /\ [](\A t \in DOMAIN frames :
             /\ frames[t].received_count = Cardinality(Filled(frames[t]))
             /\ frames[t].received_count <= frames[t].total_count
             /\ Len(frames[t].fragments) = frames[t].total_count)
    /\ [][udpLog' # udpLog =>
            LET e == udpLog'[Len(udpLog')]
                p == e.packet
                s == p.frame_seq
                had == s \in DOMAIN frames /\ s \notin e.evicted
                total == IF had THEN frames[s].total_count ELSE p.frag_count
            IN  /\ \A t \in DOMAIN frames' :
                      IF SameSlot(t)
                      THEN /\ frames'[t].total_count = frames[t].total_count
                           /\ frames'[t].pts_ms = frames[t].pts_ms
                           /\ frames'[t].is_keyframe = frames[t].is_keyframe
                           /\ \A i \in Filled(frames[t]) :
                                 frames'[t].fragments[i] = frames[t].fragments[i]
                      ELSE /\ t = s
                           /\ frames'[t].total_count = p.frag_count
                           /\ frames'[t].pts_ms = p.pts_ms
                           /\ frames'[t].is_keyframe = p.is_keyframe
                /\ (had /\ e.out # None) =>
                      /\ e.out[1].timestamp_us = frames[s].pts_ms * 1000
                      /\ e.out[1].is_keyframe = frames[s].is_keyframe
                /\ p.frag_index >= total =>
                      /\ e.out = None
                      /\ s \in DOMAIN frames'
                      /\ frames'[s].received_count = (IF had THEN frames[s].received_count ELSE 0)
                      /\ Filled(frames'[s]) = (IF had THEN Filled(frames[s]) ELSE {})]_vars

\* the slot of frame_seq 0 was made by fragment 0 of 2; fragment 2 of 3 of the
\* same frame_seq, with another pts_ms and keyframe flag, was dropped
C39_Witness ==
    /\ Len(udpLog) = 2
    /\ udpLog[1].packet.frame_seq = 0 /\ udpLog[1].packet.frag_count = 2
    /\ udpLog[2].packet.frame_seq = 0 /\ udpLog[2].packet.frag_count = 3
    /\ udpLog[2].packet.frag_index = 2
    /\ udpLog[2].evicted = {}
    /\ udpLog[2].out = None
    /\ 0 \in DOMAIN frames
    /\ frames[0].received_count = 1
    /\ frames[0].total_count = 2
    /\ frames[0].pts_ms = udpLog[1].packet.pts_ms

---------------------------------------------------------------------------
(* C40: each push first evicts the slots whose first_seen is more than 2 s    *)
(* old (a slot aged exactly 2 s is kept) and only then looks up the packet's  *)
(* slot: a fragment that comes more than 2 s after its slot was made starts a *)
(* fresh slot, never joined with the fragments stored before, so an emitted   *)
(* frame holds only fragments received within 2 s of its slot's first         *)
C40_StaleEvictedFirst ==
    /\ [][udpLog' # udpLog =>
            LET e == udpLog'[Len(udpLog')]
                p == e.packet
                s == p.frame_seq
            IN  /\ e.at = now
                /\ e.evicted = {t \in DOMAIN frames : now - frames[t].first_seen > 2}
                /\ \A t \in DOMAIN frames \ {s} :
                      IF t \in e.evicted THEN t \notin DOMAIN frames'
                      ELSE t \in DOMAIN frames' /\ frames'[t] = frames[t]
                /\ IF s \in DOMAIN frames /\ s \notin e.evicted
                   THEN e.out # None =>
                          /\ now - frames[s].first_seen <= 2
                          /\ e.out[1].data =
                               PartialFrame_assemble(
                                 [frames[s] EXCEPT !.fragments[p.frag_index + 1] =
                                                       Some(p.payload)])
                   ELSE IF e.out # None
                   THEN p.frag_count = 1 /\ e.out[1].data = p.payload
                   ELSE /\ frames'[s].first_seen = now
                        /\ Filled(frames'[s]) \subseteq {p.frag_index + 1}]_vars
    /\ [](\A t \in DOMAIN frames : \A i \in Filled(frames[t]) :
             \E k \in DOMAIN udpLog :
                /\ udpLog[k].packet.frame_seq = t
                /\ udpLog[k].packet.frag_index = i - 1
                /\ udpLog[k].packet.payload = frames[t].fragments[i][1]
                /\ udpLog[k].at >= frames[t].first_seen
                /\ udpLog[k].at - frames[t].first_seen <= 2)

\* fragment 1 of frame_seq 0 came 3 s after fragment 0: the old slot was
\* evicted and the fragment sits alone in a fresh one
C40_Witness ==
    /\ Len(udpLog) = 2
    /\ udpLog[1].packet.frame_seq = 0 /\ udpLog[1].packet.frag_index = 0
    /\ udpLog[1].at = 0
    /\ udpLog[2].packet.frame_seq = 0 /\ udpLog[2].packet.frag_index = 1
    /\ udpLog[2].packet.frag_count = udpLog[1].packet.frag_count
    /\ udpLog[2].at = 3
    /\ udpLog[2].evicted = {0}
    /\ udpLog[2].out = None
    /\ 0 \in DOMAIN frames
    /\ frames[0].first_seen = 3
    /\ Filled(frames[0]) = {2}

\* the same fragment came exactly 2 s after fragment 0 and completed the frame
C40_WitnessKept ==
    /\ Len(udpLog) = 2
    /\ udpLog[1].packet.frame_seq = 0 /\ udpLog[1].at = 0
    /\ udpLog[2].packet.frame_seq = 0 /\ udpLog[2].at = 2
    /\ udpLog[2].evicted = {}
    /\ udpLog[2].out # None

---------------------------------------------------------------------------
(* The end of a connection handler *)

\* the events of connection c that end its handler, as positions of evHist
Terminal(c) ==
    {i \in DOMAIN evHist : /\ evHist[i].conn = c
                           /\ evHist[i].ev.type \in {"SessionStopped", "ClientDisconnected"}}

\* C31: a handler that reads stop emits one SessionStopped carrying the
\* message's session_id (at once, or after waiting for room in the event
\* channel) and returns; a handler that has returned changes nothing and emits
\* nothing; every connection has at most one SessionStopped or
\* ClientDisconnected among its events, it is the connection's last event, and
\* the handler has returned once it is emitted.
C31_StopEndsConnection ==
    /\ [][\A c \in Conns(mode) : \A m \in ClientMsgs(mode) : \A ok \in BOOLEAN :
            (ConnRecv(c, m, ok) /\ m.type = "stop") =>
                LET ev == SessionStopped(unwrap_or_default(m.session_id))
                IN  \/ /\ conn'[c].pc = "closed"
                       /\ evHist' = Append(evHist, [conn |-> c, ev |-> ev])
                    \/ /\ conn'[c].pc = "sending"
                       /\ conn'[c].pending = Some(ev)
                       /\ conn'[c].after = "break"
                       /\ evHist' = evHist]_vars
    /\ [][\A c \in Conns(mode) :
            (ConnSendResume(c) /\ conn[c].after = "break") =>
                /\ conn'[c].pc = "closed"
                /\ evHist' = Append(evHist, [conn |-> c, ev |-> conn[c].pending[1]])]_vars
    /\ [][\A c \in Conns(mode) :
            conn[c].pc = "closed" =>
                /\ conn'[c] = conn[c]
                /\ wire'[c] = wire[c]
                /\ \/ evHist' = evHist
                   \/ /\ Len(evHist') = Len(evHist) + 1
                      /\ evHist'[Len(evHist')].conn # c]_vars
    /\ [](\A c \in Conns(mode) :
            /\ Cardinality(Terminal(c)) <= 1
            /\ \A i \in Terminal(c) :
                   /\ conn[c].pc = "closed"
                   /\ \A j \in DOMAIN evHist : j > i => evHist[j].conn # c)

\* connection c had its hello accepted, sent stop, and its handler has returned
\* while the other connection is still served
C31_Witness ==
    \E c \in Conns(mode) : \E i, j \in DOMAIN evHist :
        /\ i < j
        /\ evHist[i].conn = c /\ evHist[i].ev.type = "SessionStarted"
        /\ evHist[j].conn = c /\ evHist[j].ev.type = "SessionStopped"
        /\ conn[c].pc = "closed"
        /\ \E b \in Conns(mode) : b # c /\ conn[b].pc = "reading"

---------------------------------------------------------------------------
(* Frames the handler has no use for *)

\* the handler's own state: the record without the history field
Handler(k) == [k EXCEPT !.skipped = 0]

\* C32: a body that does not parse, a keepalive, a hello_ack and an input_event
\* leave the handler reading with the state it had: nothing is written to the
\* client, no event is queued or recorded, the message budget and every other
\* connection are untouched; what the handler does with the next message
\* depends on that state only.
C32_IgnoredFrames ==
    [][\A c \in Conns(mode) :
         (\/ ConnBadJson(c)
          \/ \E m \in ClientMsgs(mode) :
                /\ m.type \in {"keepalive", "hello_ack", "input_event"}
                /\ ConnRecv(c, m, TRUE))
         => /\ Handler(conn'[c]) = Handler(conn[c])
            /\ conn'[c].pc = "reading"
            /\ \A b \in Conns(mode) \ {c} : conn'[b] = conn[b]
            /\ wire' = wire
            /\ eventCh' = eventCh
            /\ evHist' = evHist
            /\ nSig' = nSig
            /\ lsn' = lsn]_vars

\* a frame was skipped on a connection that is still served and has neither
\* been written to nor produced an event
C32_Witness ==
    \E c \in Conns(mode) :
        /\ conn[c].skipped = 1
        /\ conn[c].pc = "reading"
        /\ wire[c] = <<>>
        /\ \A i \in DOMAIN evHist : evHist[i].conn # c

\* a connection on which a frame was skipped is served a session
C32_WitnessThenServed ==
    \E c \in Conns(mode) :
        /\ conn[c].skipped = 1
        /\ conn[c].session_active
        /\ \E i \in DOMAIN evHist : evHist[i].conn = c /\ evHist[i].ev.type = "SessionStarted"

---------------------------------------------------------------------------
(* A failed write of the input forwarder *)

\* the failed writes, as positions of fwdLog
FailedWrites == {j \in DOMAIN fwdLog : fwdLog[j].op = "write" /\ ~fwdLog[j].ok}

\* C33: a forwarder whose write fails returns and gives up the guard of the
\* input queue, leaving the queue as it was; it never takes the queue again;
\* the event of the failed write is not in the queue afterwards, is never taken
\* again by any forwarder, and no connection is ever written it successfully.
C33_FailedWriteLosesEvent ==
    /\ [][\A c \in DOMAIN fwd :
            FwdWrite(c, FALSE) =>
                /\ fwd'[c] = [pc |-> "exited", ev |-> None]
                /\ inputLock = c /\ inputLock' = 0
                /\ inputQ' = inputQ
                /\ \A b \in DOMAIN fwd \ {c} : fwd'[b] = fwd[b] /\ wire'[b] = wire[b]]_vars
    /\ [][\A c \in DOMAIN fwd : fwd[c].pc = "exited" => fwd'[c] = fwd[c]]_vars
    /\ [](\A j \in FailedWrites :
            /\ \A i \in 1..Len(inputQ) : inputQ[i] # fwdLog[j].ev
            /\ \A k \in DOMAIN fwdLog :
                   (k # j /\ fwdLog[k].ev = fwdLog[j].ev)
                       => (k = j - 1 /\ fwdLog[k].op = "recv"
                                     /\ fwdLog[k].conn = fwdLog[j].conn)
            /\ \A c \in DOMAIN wire : \A i \in DOMAIN wire[c] :
                   (wire[c][i].msg = input_event(fwdLog[j].ev)) =>
                       (c = fwdLog[j].conn /\ ~wire[c][i].ok)
            /\ fwd[fwdLog[j].conn].pc = "exited"
            /\ inputLock # fwdLog[j].conn)

\* the forwarder of one connection lost an event to a failed write and has
\* returned; the forwarder of the other connection took the queue afterwards
\* and wrote a later event to its own peer
C33_Witness ==
    \E j \in FailedWrites : \E k \in DOMAIN fwdLog :
        /\ k > j
        /\ fwdLog[k].op = "write" /\ fwdLog[k].ok
        /\ fwdLog[k].conn # fwdLog[j].conn
        /\ fwdLog[k].ev > fwdLog[j].ev
        /\ fwd[fwdLog[j].conn].pc = "exited"
        /\ inputLock = fwdLog[k].conn

---------------------------------------------------------------------------
(* The end of a decode worker *)

C34_WitnessJoined ==
    /\ oPc = "top"
    /\ exitReason = "config_updated"
    /\ worker = "none"
    /\ decodeCh = <<>>
    /\ Len(pushed) >= 2

---------------------------------------------------------------------------
(* Two connections on one display *)

\* In the two-client runs every event goes to display 0 and its receiver
\* lives on, so the n-th event the orchestrator takes is evHist[n].
\* Connection c had a hello accepted among the first n events
Paired(c, n) ==
    \E j \in 1..n : evHist[j].conn = c /\ evHist[j].ev.type = "SessionStarted"

\* C35: ConfigUpdated and SessionStopped come only from a connection whose
\* hello was accepted before, and the event on which the Streaming loop exits
\* (to stop the session or to re-initialise the decoder) comes from such a
\* connection.
C35_UnpairedCannotDisturb ==
    /\ [](\A i \in DOMAIN evHist :
            evHist[i].ev.type \in {"ConfigUpdated", "SessionStopped"}
                => Paired(evHist[i].conn, i - 1))
    /\ [][(oPc = "streaming" /\ oPc' = "join")
            => Paired(evHist[Len(eventsTaken')].conn, Len(eventsTaken'))]_vars

\* The display waits for a hello with nothing in its event channel while a
\* connection whose hello was accepted, and whose SessionStarted the
\* orchestrator has taken, is served by its handler
Stranded ==
    /\ oPc = "wait_hello"
    /\ eventCh[0] = <<>>
    /\ \E c \in Conns(mode) :
          /\ conn[c].pc = "reading" /\ conn[c].session_active
          /\ \E j \in 1..Len(eventsTaken) :
                evHist[j].conn = c /\ evHist[j].ev.type = "SessionStarted"
          /\ \A b \in Conns(mode) \ {c} : conn[b].pc = "closed"

\* C36: a SessionStarted the orchestrator takes from the event channel sends
\* it to the decoder initialisation with the event's config, and the display
\* never waits for a hello while an accepted session is being served.
C36_SessionStartedServed ==
    /\ [][(Len(eventsTaken') = Len(eventsTaken) + 1
             /\ eventsTaken'[Len(eventsTaken')].type = "SessionStarted")
           => /\ oPc' = "decoder_init"
              /\ config' = eventsTaken'[Len(eventsTaken')].config]_vars
    /\ [](~Stranded)

---------------------------------------------------------------------------
(* The accept loop and the TLS handshake *)

\* a failed handshake drops that connection only: nothing is written or
\* emitted, the other connections are untouched and the loop accepts again
C37_FailedHandshakeDropsOnlyThat ==
    [][\A c \in Conns(mode) :
         HandshakeFail(c) =>
             /\ conn'[c].pc = "failed"
             /\ \A b \in Conns(mode) \ {c} : conn'[b] = conn[b]
             /\ wire' = wire /\ evHist' = evHist /\ eventCh' = eventCh
             /\ lsn'[DisplayOf(mode, c)] = 0]_vars

\* C37: a connection whose TCP connect is complete can be accepted whatever
\* the state of the other connections' handshakes, and a failed handshake
\* drops that connection only.
C37_StalledHandshakeDoesNotBlock ==
    /\ [](\A b \in Conns(mode) : conn[b].pc = "queued" => ENABLED ListenerAccept(b))
    /\ C37_FailedHandshakeDropsOnlyThat

\* the accept loop is inside the handshake of one connection while another
\* one waits to be accepted
C37_Blocked ==
    \E c, b \in Conns(mode) :
        /\ conn[c].pc = "handshake"
        /\ lsn[DisplayOf(mode, c)] = c
        /\ conn[b].pc = "queued"
        /\ DisplayOf(mode, b) = DisplayOf(mode, c)
        /\ ~ENABLED ListenerAccept(b)

---------------------------------------------------------------------------
(* The decoder's resolution and the configs taken from the event channel *)

\* the SessionStarted and ConfigUpdated events the orchestrator took, as
\* positions of eventsTaken
ConfigEvents ==
    {i \in DOMAIN eventsTaken : eventsTaken[i].type \in {"SessionStarted", "ConfigUpdated"}}

\* the decoder of the running session has the resolution of the last config
\* event taken
DecoderHasLastConfig ==
    /\ ConfigEvents # {}
    /\ initLog # <<>>
    /\ LET last == CHOOSE i \in ConfigEvents : \A j \in ConfigEvents : j <= i
       IN  initLog[Len(initLog)].config.resolution = eventsTaken[last].config[1].resolution

\* C38: when no decoder initialisation has failed, the display is Streaming
\* and its event channel is empty, the running decoder was initialised with
\* the resolution of the last SessionStarted or ConfigUpdated taken.
C38_DecoderTracksConfig ==
    (/\ oPc = "streaming"
     /\ eventCh[0] = <<>>
     /\ \A i \in DOMAIN initLog : initLog[i].ok)
        => DecoderHasLastConfig

\* the same for the runs in which one SessionStarted was taken: every
\* ConfigUpdated with another resolution restarted the decoder
C38_ConfigUpdatesTracked ==
    (/\ oPc = "streaming"
     /\ eventCh[0] = <<>>
     /\ \A i \in DOMAIN initLog : initLog[i].ok
     /\ Cardinality({i \in DOMAIN eventsTaken : eventsTaken[i].type = "SessionStarted"}) = 1)
        => DecoderHasLastConfig

\* two updates with different resolutions were taken one after the other and
\* the decoder was restarted for each
C38_BackToBack ==
    /\ oPc = "streaming"
    /\ eventCh[0] = <<>>
    /\ Len(initLog) = 3
    /\ \A i \in DOMAIN initLog : initLog[i].ok
    /\ Len(eventsTaken) = 3
    /\ eventsTaken[2].type = "ConfigUpdated" /\ eventsTaken[3].type = "ConfigUpdated"
    /\ eventsTaken[2].config[1].resolution # eventsTaken[3].config[1].resolution

====
